---- MODULE Spec2Model ----
(***************************************************************************)
(* Model of mdp.parallel.parallelflows: the ParallelFlow coordinator       *)
(* (setup_parallel_training, _next_train_phase, _local_train_phase,        *)
(* get_task, use_results, setup_parallel_execution, train, execute) and    *)
(* ParallelCheckpointFlow's checkpoint hook.                               *)
(*                                                                         *)
(* Python's None is the empty tuple <<>>, a value x that may be None is    *)
(* <<x>>.  Node indexes are 0-based as in the source; flow[i] of the       *)
(* source is flow[i + 1] here.                                             *)
(***************************************************************************)
EXTENDS Integers, Sequences, FiniteSets, TLC

\* ------------------------------------------------------------------ bounds
NumNodes == 2
MaxPhases == 3
MaxChunks == 2
MaxLaterPhases == 1
MaxCheckpointPhases == 2    \* training phases of a node of a ParallelCheckpointFlow
MaxResults == 3             \* results added to a result container before a drain

None == <<>>
Some(x) == <<x>>
IsNone(o) == o = <<>>
Val(o) == o[1]

VARIABLES
    flow,                   \* self.flow: the nodes (static shape and training state)
    isCheckpointFlow,       \* the coordinator is a ParallelCheckpointFlow
    train_data_iterables,   \* self._train_data_iterables
    train_data_iterator,    \* self._train_data_iterator
    i_train_node,           \* self._i_train_node
    exec_data_iterator,     \* self._exec_data_iterator
    next_task,              \* self._next_task
    checkpoints,            \* self._checkpoints
    hist,                   \* observations of the run (calls made, tasks handed out)
    node_container,         \* a NodeResultContainer: self._node, and its calls
    active_extensions,      \* the extensions active in the environment (mdp)
    task_callable,          \* a FlowTaskCallable: self._used_extensions
    ret                     \* outcome of the last call: operation, exception, value

vars == <<flow, isCheckpointFlow, train_data_iterables, train_data_iterator,
          i_train_node, exec_data_iterator, next_task, checkpoints, hist,
          node_container, active_extensions, task_callable, ret>>

\* ------------------------------------------------------------------ nodes
\* A node: nphases training phases (0: not trainable), forks[p + 1] tells
\* whether fork() succeeds in phase p, cur is get_current_train_phase(),
\* acc the chunks trained or joined into the node in its open phase.
\* the fork patterns of a node of n phases: every phase alike, or
\* alternating from phase to phase (fork() is tried anew in every phase)
ForkPatterns(n) ==
    {[p \in 1..n |-> IF alt /\ p % 2 = 0 THEN ~first ELSE first] :
        first \in BOOLEAN, alt \in BOOLEAN}

NodeShapes == UNION {{[nphases |-> n, forks |-> f] : f \in ForkPatterns(n)} : n \in 0..MaxPhases}

NewNode(shape) ==
    [nphases |-> shape.nphases, forks |-> shape.forks, cur |-> 0, acc |-> <<>>]

is_training(node) == node.cur < node.nphases
get_current_train_phase(node) == node.cur
get_remaining_train_phase(node) == node.nphases - node.cur

\* node.train(chunk) in the current phase
node_train(node, chunk) ==
    [node EXCEPT !.acc = Append(@, chunk)]

\* node.join(result): the chunks the forked node was trained with are merged
\* into the node's; join is commutative and associative (the merged state
\* does not depend on the order of arrival), so the merged chunks are kept
\* in a canonical order
ChunkKey(chunk) ==
    (IF chunk[1] = "t" THEN 0 ELSE (NumNodes + 1) * (MaxChunks + 1))
    + chunk[2] * (MaxChunks + 1) + chunk[3]

RECURSIVE Insert(_, _)
Insert(seq, chunk) ==
    IF seq = <<>> THEN <<chunk>>
    ELSE IF ChunkKey(chunk) < ChunkKey(Head(seq)) THEN <<chunk>> \o seq
    ELSE <<Head(seq)>> \o Insert(Tail(seq), chunk)

RECURSIVE Merge(_, _)
Merge(seq, result) ==
    IF result = <<>> THEN seq
    ELSE Merge(Insert(seq, Head(result)), Tail(result))

node_join(node, result) ==
    [node EXCEPT !.acc = Merge(@, result)]

\* node.stop_training(): the open phase is closed with what was accumulated
node_stop_training(node) == [node EXCEPT !.cur = @ + 1, !.acc = <<>>]

\* FlowNode.fork(): forks the node of the wrapped flow that is in training
flownode_forks(node) == node.forks[node.cur + 1]

\* ------------------------------------------------------------ data sources
\* The k-th chunk of the training data of node i, and of the execution data
TrainChunk(i, k) == <<"t", i, k>>
ExecChunk(k) == <<"x", 0, k>>

\* What the task callables return for a chunk: FlowTrainCallable.__call__
\* returns the forked node trained with the chunk, FlowExecuteCallable.__call__
\* the output of flow.execute for it
FlowTrainCallable_call(chunk) == <<chunk>>

\* mdp.Flow.execute(x, nodenr) on one chunk: the output of the node nodenr
\* for it, of the last node with nodenr None
Flow_execute_chunk(chunk, nodenr) ==
    <<"y", IF IsNone(nodenr) THEN NumNodes - 1 ELSE Val(nodenr), chunk[3]>>

\* FlowExecuteCallable.__init__(flow, nodenr), __call__ and fork
FlowExecuteCallable_init(nodenr) ==
    [kind |-> "execute", node |-> 0 - 1, phase |-> 0, nodenr |-> nodenr]

FlowExecuteCallable_call(callable, chunk) ==
    <<Flow_execute_chunk(chunk, callable.nodenr)>>

FlowExecuteCallable_fork(callable) == FlowExecuteCallable_init(callable.nodenr)

\* nodenr of a call of setup_parallel_execution or execute
NodeNrs == {None, Some(0)}

\* A data source of n chunks for node i: a re-iterable list, or a one-shot
\* iterator (iter() returns the object itself, chunks holds what is left)
Source(i, n, oneShot) ==
    [chunks |-> [k \in 1..n |-> TrainChunk(i, k)], oneShot |-> oneShot]

\* <<number of chunks, one-shot>>: lists of every length, and a one-shot
\* iterator one chunk longer, so that a later phase can still find chunks
\* in it that an earlier phase has left
SourceShapes == ((0..MaxChunks) \X {FALSE}) \cup {<<MaxChunks + 1, TRUE>>}

\* data_iterables: one source per node of the flow, each node with its own
\* chunks; the sources of one call are of the same kind and length
DataIterables ==
    {[j \in 1..NumNodes |-> Source(j - 1, sh[1], sh[2])] : sh \in SourceShapes}

ExecIterables == {[k \in 1..n |-> ExecChunk(k)] : n \in 0..MaxChunks}

\* what a checkpoint function returns, as the sequence of the <<attribute,
\* value>> items of the dict: for the first node an iterator of execution
\* data to store as _exec_data_iterator, for a later node nothing (None or {})
CheckpointDict(i) ==
    IF i = 0
    THEN <<<<"exec_data_iterator", Some([k \in 1..MaxChunks |-> ExecChunk(k)])>>>>
    ELSE <<>>

\* checkpoints: per node None or a checkpoint function, which is given by
\* the dict it returns
CheckpointLists ==
    {[j \in 1..NumNodes |-> IF j % 2 = b THEN Some(CheckpointDict(j - 1)) ELSE None] :
        b \in 0..1}

\* -------------------------------------------------------- the coordinator
\* The fields of the ParallelFlow instance as one record, with exc the
\* exception the running call has raised ("none": it has not raised)
Self ==
    [flow |-> flow, isCheckpointFlow |-> isCheckpointFlow,
     train_data_iterables |-> train_data_iterables,
     train_data_iterator |-> train_data_iterator,
     i_train_node |-> i_train_node,
     exec_data_iterator |-> exec_data_iterator,
     next_task |-> next_task, checkpoints |-> checkpoints,
     hist |-> hist, exc |-> "none", rtask |-> None, rout |-> <<>>,
     rnth |-> 0, rref |-> None, rargs |-> None, trace |-> <<>>]

Raise(c, e) == [c EXCEPT !.exc = e]

is_parallel_training(c) == ~IsNone(c.i_train_node)
is_parallel_executing(c) == ~IsNone(c.exec_data_iterator)
task_available(c) == ~IsNone(c.next_task)

\* An iterator: rest the chunks it has yet to yield, src and phase the node
\* and phase it was made for, live whether it is a one-shot source that
\* self._train_data_iterables still holds (the two then advance together).
\* An iterator at its end yields nothing whatever it ran over: one value.
Exhausted == [rest |-> <<>>, src |-> 0, oneShot |-> FALSE, live |-> FALSE, phase |-> 0]

Iterator(it) == IF it.rest = <<>> THEN Exhausted ELSE it

\* an iterator over the source of node i that starts at its second chunk
Iter_past_first(c, i) ==
    LET src == Val(c.train_data_iterables)[i + 1]
    IN  Iterator([rest |-> IF src.chunks = <<>> THEN <<>> ELSE Tail(src.chunks),
                  src |-> i, oneShot |-> src.oneShot,
                  live |-> src.oneShot,
                  phase |-> get_current_train_phase(c.flow[i + 1])])

\* iter(data_iterable) for the source of node i
Iter(c, i) ==
    LET src == Val(c.train_data_iterables)[i + 1]
    IN  Iterator([rest |-> src.chunks, src |-> i, oneShot |-> src.oneShot,
                  live |-> src.oneShot,
                  phase |-> get_current_train_phase(c.flow[i + 1])])

\* iterator.next() on self._train_data_iterator when it has a chunk left: a
\* one-shot source is the iterator, so it loses the chunk as well
IterAdvance(c) ==
    LET it == Val(c.train_data_iterator)
        c1 == [c EXCEPT !.train_data_iterator =
                            Some(Iterator([it EXCEPT !.rest = Tail(@)]))]
    IN  IF it.oneShot /\ it.live /\ ~IsNone(c.train_data_iterables)
        THEN [c1 EXCEPT !.train_data_iterables =
                Some([Val(@) EXCEPT ![it.src + 1].chunks = Tail(it.rest)])]
        ELSE c1

\* the source of node i has been iterated to its end (for ... in data_iterable)
IterDrain(c, i) ==
    LET src == Val(c.train_data_iterables)[i + 1]
        c1 == [c EXCEPT !.train_data_iterables =
                Some([Val(@) EXCEPT ![i + 1].chunks = <<>>])]
    IN  IF ~src.oneShot THEN c
        ELSE IF ~IsNone(c.train_data_iterator)
                /\ Val(c.train_data_iterator).live
                /\ Val(c.train_data_iterator).oneShot
                /\ Val(c.train_data_iterator).src = i
             THEN [c1 EXCEPT !.train_data_iterator = Some(Exhausted)]
             ELSE c1

\* _create_train_task attaching a callable to every task it creates
create_train_task_with_callable(c) ==
    IF IsNone(c.train_data_iterator)
    THEN [c |-> Raise(c, "AttributeError"), r |-> None]
    ELSE LET it == Val(c.train_data_iterator)
         IN  IF it.rest = <<>>
             THEN [c |-> c, r |-> None]
             ELSE [c |-> IterAdvance(c),
                   r |-> Some([chunk |-> Head(it.rest),
                               callable |-> Some([kind |-> "train", node |-> it.src,
                                                  phase |-> it.phase, nodenr |-> None]),
                               of_node |-> it.src, of_phase |-> it.phase])]

\* ParallelFlow._create_train_task: [c: the coordinator after, r: the task or None]
create_train_task(c) ==
    IF IsNone(c.train_data_iterator)
    THEN [c |-> Raise(c, "AttributeError"), r |-> None]
    ELSE LET it == Val(c.train_data_iterator)
         IN  IF it.rest = <<>>
             THEN [c |-> c, r |-> None]
             ELSE [c |-> IterAdvance(c),
                   r |-> Some([chunk |-> Head(it.rest), callable |-> None,
                               of_node |-> it.src, of_phase |-> it.phase])]

\* ParallelFlow._create_execute_task
create_execute_task(c) ==
    LET rest == Val(c.exec_data_iterator)
    IN  IF rest = <<>>
        THEN [c |-> c, r |-> None]
        ELSE [c |-> [c EXCEPT !.exec_data_iterator = Some(Tail(rest))],
              r |-> Some([chunk |-> Head(rest), callable |-> None,
                          of_node |-> 0 - 1, of_phase |-> 0])]

\* the error of an empty data source, the phases counted from 1
EmptyIteratorError_from_one(node) ==
    IF get_current_train_phase(node) = 2
    THEN "FlowException: could not be repeated"
    ELSE "FlowException: iterator is empty"

\* the error of an empty data source, by get_current_train_phase()
EmptyIteratorError(node) ==
    IF get_current_train_phase(node) = 1
    THEN "FlowException: could not be repeated"
    ELSE "FlowException: iterator is empty"

\* self.__dict__.update(dict): the attributes the dict names take its values
dict_update(c, dict) ==
    [f \in DOMAIN c |->
        IF \E k \in 1..Len(dict) : dict[k][1] = f
        THEN dict[CHOOSE k \in 1..Len(dict) : dict[k][1] = f][2]
        ELSE c[f]]

\* self._checkpoints[i_node](self.flow[i_node]) and the storing of the dict
\* it returns, if it is not empty
call_checkpoint(c, i_node) ==
    LET dict == Val(Val(c.checkpoints)[i_node + 1])
        c1 == [c EXCEPT !.trace = Append(@, <<"checkpoint", i_node, 0, <<>>>>)]
    IN  IF dict # <<>> THEN dict_update(c1, dict) ELSE c1

\* _post_stop_training_hook not asking whether a phase of the node remains
post_stop_training_hook_every_phase(c) ==
    IF ~c.isCheckpointFlow THEN c
    ELSE LET i_node == Val(c.i_train_node)
         IN  IF i_node <= Len(Val(c.checkpoints))
                /\ ~IsNone(Val(c.checkpoints)[i_node + 1])
             THEN call_checkpoint(c, i_node)
             ELSE c

\* ParallelCheckpointFlow._post_stop_training_hook (ParallelFlow's is a no-op)
post_stop_training_hook(c) ==
    IF ~c.isCheckpointFlow THEN c
    ELSE LET i_node == Val(c.i_train_node)
         IN  IF get_remaining_train_phase(c.flow[i_node + 1]) = 0
                /\ i_node <= Len(Val(c.checkpoints))
                /\ ~IsNone(Val(c.checkpoints)[i_node + 1])
             THEN call_checkpoint(c, i_node)
             ELSE c

\* closing a phase of node i: node.stop_training() / flownode.stop_training().
\* trace lists what the running call has done, in order: <<"stop", i, p, chunks>>
\* phase p of node i closed with these chunks, <<"local", i, p, <<>>>> a local
\* training phase begun, <<"checkpoint", i, 0, <<>>>> the checkpoint function
\* of node i invoked
stop_training(c, i) ==
    [c EXCEPT !.flow[i + 1] = node_stop_training(@),
              !.trace = Append(@, <<"stop", i, c.flow[i + 1].cur, c.flow[i + 1].acc>>)]

\* ParallelFlow._local_train_phase for the node at _i_train_node
RECURSIVE TrainAll(_, _)
TrainAll(node, chunks) ==
    IF chunks = <<>> THEN node
    ELSE TrainAll(node_train(node, Head(chunks)), Tail(chunks))

\* _local_train_phase leaving out the first chunk of the data
local_train_phase_skipping(c) ==
    LET i == Val(c.i_train_node)
        current_node == c.flow[i + 1]
        data == Val(c.train_data_iterables)[i + 1].chunks
        c1 == [IterDrain(c, i) EXCEPT
                  !.flow[i + 1] = TrainAll(current_node,
                                           IF data = <<>> THEN data ELSE Tail(data)),
                                      !.trace = Append(@, <<"local", i, current_node.cur, <<>>>>)]
    IN  IF data = <<>>
        THEN Raise(c1, EmptyIteratorError(current_node))
        ELSE c1

local_train_phase(c) ==
    LET i == Val(c.i_train_node)
        current_node == c.flow[i + 1]
        data == Val(c.train_data_iterables)[i + 1].chunks
        c1 == [IterDrain(c, i) EXCEPT !.flow[i + 1] = TrainAll(current_node, data),
                                      !.trace = Append(@, <<"local", i, current_node.cur, <<>>>>)]
    IN  IF data = <<>>
        THEN Raise(c1, EmptyIteratorError(current_node))
        ELSE c1

RECURSIVE next_train_phase_loop(_)

\* if not node.is_training(): self._i_train_node += 1, on the attribute as
\* the checkpoint hook has left it (None cannot be incremented)
increment_i_train_node(c, node) ==
    IF is_training(node) THEN c
    ELSE IF IsNone(c.i_train_node) THEN Raise(c, "TypeError")
    ELSE [c EXCEPT !.i_train_node = Some(Val(@) + 1)]

\* the fork refused, and the exception let through instead of caught
train_phase_not_parallel_raised(c) ==
    Raise(c, "TrainingPhaseNotParallelException")

\* ParallelFlow._next_train_phase, except TrainingPhaseNotParallelException:
\* the phase of the node at _i_train_node is trained locally and closed,
\* and the loop goes on
train_phase_not_parallel(c) ==
    LET i == Val(c.i_train_node)
        c1 == local_train_phase(c)
    IN  IF c1.exc # "none" THEN c1
        ELSE LET c2 == post_stop_training_hook(stop_training(c1, i))
                 j == c2.i_train_node
             IN  IF IsNone(j) THEN Raise(c2, "TypeError")
                 ELSE IF ~(Val(j) < Len(c2.flow)) THEN Raise(c2, "IndexError")
                 ELSE LET c3 == increment_i_train_node(c2, c2.flow[Val(j) + 1])
                      IN  next_train_phase_loop(c3)

\* the loop going past a node whose phase does not fork, leaving it untrained
next_train_phase_loop_leaving_local(c) ==
    IF IsNone(c.i_train_node) THEN Raise(c, "TypeError") ELSE
    LET i == Val(c.i_train_node) IN
    IF ~(i < Len(c.flow))
    THEN [c EXCEPT !.i_train_node = None]
    ELSE
    LET current_node == c.flow[i + 1] IN
    IF ~is_training(current_node) \/ ~flownode_forks(current_node)
    THEN next_train_phase_loop([c EXCEPT !.i_train_node = Some(i + 1)])
    ELSE IF IsNone(c.train_data_iterables)
    THEN Raise(c, "TypeError")
    ELSE LET c1 == [c EXCEPT !.train_data_iterator = Some(Iter(c, i)),
                             !.trace = Append(@, <<"fork", i, current_node.cur, <<>>>>)]
             first == create_train_task(c1)
         IN  IF IsNone(first.r)
             THEN Raise(first.c, EmptyIteratorError(current_node))
             ELSE [first.c EXCEPT
                     !.next_task = Some([Val(first.r) EXCEPT !.callable =
                         Some([kind |-> "train", node |-> i,
                               phase |-> current_node.cur, nodenr |-> None])]),
                     !.hist.handed = 0]

\* ParallelFlow._next_train_phase: the loop over the nodes from _i_train_node
\* (with None for an index, self.flow[None] is a TypeError)
next_train_phase_loop(c) ==
    IF IsNone(c.i_train_node) THEN Raise(c, "TypeError") ELSE
    LET i == Val(c.i_train_node) IN
    IF ~(i < Len(c.flow))
    THEN [c EXCEPT !.i_train_node = None]
    ELSE
    LET current_node == c.flow[i + 1] IN
    IF ~is_training(current_node)
    THEN next_train_phase_loop([c EXCEPT !.i_train_node = Some(i + 1)])
    ELSE IF IsNone(c.train_data_iterables)
    THEN Raise(c, "TypeError")
    ELSE IF flownode_forks(current_node)
    THEN LET c1 == [c EXCEPT !.train_data_iterator = Some(Iter(c, i)),
                             !.trace = Append(@, <<"fork", i, current_node.cur, <<>>>>)]
             first == create_train_task(c1)
         IN  IF IsNone(first.r)
             THEN Raise(first.c, EmptyIteratorError(current_node))
             ELSE [first.c EXCEPT
                     !.next_task = Some([Val(first.r) EXCEPT !.callable =
                         Some([kind |-> "train", node |-> i,
                               phase |-> current_node.cur, nodenr |-> None])]),
                     !.hist.handed = 0]
    ELSE train_phase_not_parallel(c)

\* _next_train_phase going into its loop with the FlowNode of the call before
next_train_phase_keeping_flownode(c) ==
    next_train_phase_loop(c)

\* ParallelFlow._next_train_phase: self._flownode = FlowNode(mdp.Flow(self.flow)),
\* then the loop.  Nothing reads self._flownode but the call of
\* _next_train_phase that has built it, so of the FlowNode the trace keeps
\* <<"flownode", i, 0, <<>>>>: one was built, with the node index at i; the
\* phases begun after it in the trace, <<"local", i, p, <<>>>> trained locally
\* and <<"fork", i, p, <<>>>> forked for parallel training, are begun with it.
next_train_phase(c) ==
    next_train_phase_loop(
        [c EXCEPT !.trace = Append(@, <<"flownode",
                                        IF IsNone(c.i_train_node) THEN -1
                                        ELSE Val(c.i_train_node), 0, <<>>>>)])

\* get_task has handed out the buffered task: the rnth-th since a first task
\* was buffered (hist.handed counts them while a task is buffered; with the
\* buffer empty the next task to come is a first one again)
Handed(c, task) ==
    [c EXCEPT !.rtask = task,
              !.rnth = c.hist.handed + 1,
              !.hist.handed = IF IsNone(c.next_task) THEN 0 ELSE @ + 1,
              !.hist.callable = IF IsNone(Val(task).callable) THEN @
                                ELSE Val(task).callable,
              !.hist.pending = Append(@, Val(task).chunk)]

\* get_task handing out the buffered task without refilling the buffer
get_task_without_refill(c) ==
    IF ~IsNone(c.next_task) /\ (~IsNone(c.i_train_node) \/ ~IsNone(c.exec_data_iterator))
    THEN Handed([c EXCEPT !.next_task = None], c.next_task)
    ELSE Raise(c, "NoTaskException")

\* ParallelFlow.get_task
get_task(c) ==
    IF ~IsNone(c.next_task)
    THEN LET task == c.next_task IN
         IF ~IsNone(c.i_train_node)
         THEN LET n == create_train_task(c)
              IN  IF n.c.exc # "none" THEN n.c
                  ELSE Handed([n.c EXCEPT !.next_task = n.r], task)
         ELSE IF ~IsNone(c.exec_data_iterator)
         THEN LET n == create_execute_task(c)
              IN  Handed([n.c EXCEPT !.next_task = n.r], task)
         ELSE Raise(c, "NoTaskException")
    ELSE Raise(c, "NoTaskException")

\* joining the first of the results only
JoinAll_first_only(node, results) ==
    IF results = <<>> THEN node ELSE node_join(node, Head(results))

RECURSIVE JoinAll(_, _)
JoinAll(node, results) ==
    IF results = <<>> THEN node
    ELSE JoinAll(node_join(node, Head(results)), Tail(results))

\* a result is a forked node (what FlowTrainCallable.__call__ returns: the
\* chunks it was trained with), rows of output (what FlowExecuteCallable.__call__
\* returns) or None
IsNodeResult(result) == ~IsNone(result) /\ result[1][1] # "y"

\* the results up to the first that is no node: node.join(result) fails on
\* None and on rows of output, neither being a node
RECURSIVE BeforeNone(_)
BeforeNone(results) ==
    IF results = <<>> \/ ~IsNodeResult(Head(results)) THEN <<>>
    ELSE <<Head(results)>> \o BeforeNone(Tail(results))

\* numx.concatenate(results)
RECURSIVE Concatenate(_)
Concatenate(results) ==
    IF results = <<>> THEN <<>>
    ELSE Head(results) \o Concatenate(Tail(results))

\* use_results closing every phase the node has left, not one
use_results_closing_every_phase(c, results) ==
    IF is_parallel_training(c)
    THEN LET i == Val(c.i_train_node)
             c1 == [c EXCEPT !.flow[i + 1] = JoinAll(@, BeforeNone(results))]
             c2 == post_stop_training_hook(stop_training(c1, i))
             c3 == IF is_training(c2.flow[i + 1])
                   THEN post_stop_training_hook(stop_training(c2, i))
                   ELSE c2
             c4 == increment_i_train_node(c3, c3.flow[i + 1])
         IN  IF BeforeNone(results) # results
             THEN Raise(c1, "AttributeError")
             ELSE IF c4.exc # "none" THEN c4
             ELSE next_train_phase(c4)
    ELSE IF is_parallel_executing(c)
    THEN LET c1 == [c EXCEPT !.exec_data_iterator = None]
         IN  IF results = <<>>
             THEN Raise(c1, "ValueError")
             ELSE IF \E k \in 1..Len(results) : IsNodeResult(results[k])
             THEN Raise(c1, "TypeError")
             ELSE [c1 EXCEPT !.rout = Concatenate(results)]
    ELSE c

\* ParallelFlow.use_results
use_results(c, results) ==
    IF is_parallel_training(c)
    THEN LET i == Val(c.i_train_node)
             c1 == [c EXCEPT !.flow[i + 1] = JoinAll(@, BeforeNone(results))]
             c2 == post_stop_training_hook(stop_training(c1, i))
             c3 == increment_i_train_node(c2, c2.flow[i + 1])
         IN  IF BeforeNone(results) # results
             THEN Raise(c1, "AttributeError")
             ELSE IF c3.exc # "none" THEN c3
             ELSE next_train_phase(c3)
    ELSE IF is_parallel_executing(c)
    THEN LET c1 == [c EXCEPT !.exec_data_iterator = None]
         IN  IF results = <<>>
             THEN Raise(c1, "ValueError")
             ELSE IF \E k \in 1..Len(results) : IsNodeResult(results[k])
             THEN Raise(c1, "TypeError")
             ELSE [c1 EXCEPT !.rout = Concatenate(results)]
    ELSE c

\* the caller's data_iterables replace the ones held: an iterator still held
\* no longer runs over a source of self._train_data_iterables
Detach(it) ==
    IF IsNone(it) THEN it ELSE Some([Val(it) EXCEPT !.live = FALSE])

\* setup_parallel_training starting the run at the second node
setup_parallel_training_from_second(c, data_iterables, ckpts) ==
    LET c0 == IF c.isCheckpointFlow
              THEN [c EXCEPT !.checkpoints = Some(ckpts)]
              ELSE c
    IN  IF is_parallel_training(c0)
        THEN Raise(c0, "ParallelFlowException")
        ELSE next_train_phase(
                [c0 EXCEPT !.train_data_iterables = Some(data_iterables),
                           !.train_data_iterator = Detach(@),
                           !.i_train_node = Some(1)])

\* ParallelFlow.setup_parallel_training, and ParallelCheckpointFlow's, which
\* stores the checkpoints first
setup_parallel_training(c, data_iterables, ckpts) ==
    LET c0 == IF c.isCheckpointFlow
              THEN [c EXCEPT !.checkpoints = Some(ckpts)]
              ELSE c
    IN  IF is_parallel_training(c0)
        THEN Raise(c0, "ParallelFlowException")
        ELSE next_train_phase(
                [c0 EXCEPT !.train_data_iterables = Some(data_iterables),
                           !.train_data_iterator = Detach(@),
                           !.i_train_node = Some(0)])

\* ParallelFlow.setup_parallel_execution
setup_parallel_execution(c, iterable, nodenr) ==
    IF is_parallel_training(c)
    THEN Raise(c, "ParallelFlowException")
    ELSE LET c1 == [c EXCEPT !.exec_data_iterator = Some(iterable)]
             first == create_execute_task(c1)
         IN  IF IsNone(first.r)
             THEN Raise(first.c, "FlowException: execute data iterator is empty")
             ELSE [first.c EXCEPT
                     !.next_task = Some([Val(first.r) EXCEPT !.callable =
                         Some(FlowExecuteCallable_init(None))]),
                     !.hist.handed = 0]

\* ------------------------------------------------- sequential training
\* mdp.Flow.train as the reference: node after node, every remaining phase
\* of a node is trained with all chunks of the node's iterable, in order,
\* and closed.  [flow, closed, ok]: the nodes after, the phases closed with
\* their chunks, and ok is FALSE when a phase found no chunk.
RECURSIVE SeqTrainNode(_, _, _, _)
SeqTrainNode(node, src, j, closed) ==
    IF ~is_training(node) THEN [node |-> node, closed |-> closed, ok |-> TRUE]
    ELSE IF src.chunks = <<>> THEN [node |-> node, closed |-> closed, ok |-> FALSE]
    ELSE SeqTrainNode(node_stop_training(TrainAll(node, src.chunks)),
                      IF src.oneShot THEN [src EXCEPT !.chunks = <<>>] ELSE src,
                      j,
                      Append(closed, <<"stop", j - 1, node.cur, node.acc \o src.chunks>>))

RECURSIVE SeqTrainFrom(_, _, _, _)
SeqTrainFrom(fl, data_iterables, j, closed) ==
    IF j > Len(fl) THEN [flow |-> fl, closed |-> closed, ok |-> TRUE]
    ELSE LET r == SeqTrainNode(fl[j], data_iterables[j], j, closed)
         IN  IF ~r.ok
             THEN [flow |-> [fl EXCEPT ![j] = r.node], closed |-> r.closed, ok |-> FALSE]
             ELSE SeqTrainFrom([fl EXCEPT ![j] = r.node], data_iterables, j + 1, r.closed)

SequentialTrain(fl, data_iterables) == SeqTrainFrom(fl, data_iterables, 1, <<>>)

\* mdp.Flow.train, which train calls when no scheduler is given
Flow_train(c, data_iterables) ==
    LET r == SequentialTrain(c.flow, data_iterables)
        c1 == [c EXCEPT !.flow = r.flow, !.trace = r.closed]
    IN  IF r.ok THEN c1 ELSE Raise(c1, "FlowException")

\* mdp.Flow.execute, which execute calls when no scheduler is given
Flow_execute(c, iterable, nodenr) ==
    [c EXCEPT !.rout = [k \in 1..Len(iterable) |->
                           Flow_execute_chunk(iterable[k], nodenr)]]

\* ------------------------------------------------------------ scheduler
\* the results of the tasks handed out, in the order perm: the scheduler
\* calls the callable of the first task, and a fork of it for every later
\* task (hist.callable is the callable last handed out with a task, a
\* FlowTrainCallable or a FlowExecuteCallable whatever run is underway when
\* the results are used; a scheduler that was handed none runs the flow
\* itself)
ResultsOf(c, chunks, perm) ==
    LET callable == IF IsNone(c.hist.callable) THEN FlowExecuteCallable_init(None)
                    ELSE Val(c.hist.callable)
    IN  [j \in 1..Len(chunks) |->
            IF callable.kind = "train"
            THEN FlowTrainCallable_call(chunks[perm[j]])
            ELSE FlowExecuteCallable_call(
                     IF perm[j] = 1 THEN callable ELSE FlowExecuteCallable_fork(callable),
                     chunks[perm[j]])]

\* A scheduler runs the tasks added and hands each result to its result
\* container as the task completes: in the order of submission ("fifo") or
\* the last submitted first ("lifo"); a scheduler may also fail to produce
\* anything for the tasks added ("lost").
SchedulerOrders == {"fifo", "lifo", "lost"}

Reverse(seq) == [k \in 1..Len(seq) |-> seq[Len(seq) + 1 - k]]

\* <<result, task_index>> of every task, in the order of completion
Completed(results, order) ==
    LET indexed == [k \in 1..Len(results) |-> <<results[k], k>>]
    IN  IF order = "fifo" THEN indexed
        ELSE IF order = "lifo" THEN Reverse(indexed)
        ELSE <<>>

\* add_result putting the result in the place of what the container holds
NodeResultContainer_add_result_replacing(node, result) == Some(result)

\* NodeResultContainer.add_result on the container holding node (None: empty)
NodeResultContainer_add_result(node, result) ==
    IF IsNone(node) THEN Some(result) ELSE Some(Merge(Val(node), result))

RECURSIVE NodeResultContainer_add_all(_, _)
NodeResultContainer_add_all(node, completed) ==
    IF completed = <<>> THEN node
    ELSE NodeResultContainer_add_all(
            NodeResultContainer_add_result(node, Head(completed)[1]), Tail(completed))

\* NodeResultContainer.get_results on the container holding node: the list
\* returned, and what the container holds after
NodeResultContainer_get_results(node) ==
    [results |-> <<IF IsNone(node) THEN None ELSE Val(node)>>, node |-> None]

\* NodeResultContainer.__init__
NodeResultContainer_init == [node |-> None, added |-> <<>>, last |-> None]

\* the results a scheduler may add: the forks of a node trained with one
\* chunk each
ForkedResults ==
    {FlowTrainCallable_call(TrainChunk(i, k)) : i \in 0..(NumNodes - 1), k \in 1..MaxChunks}

\* scheduling.OrderedResultContainer.get_results: the results by task index
RECURSIVE InsertByIndex(_, _)
InsertByIndex(seq, e) ==
    IF seq = <<>> THEN <<e>>
    ELSE IF e[2] < Head(seq)[2] THEN <<e>> \o seq
    ELSE <<Head(seq)>> \o InsertByIndex(Tail(seq), e)

RECURSIVE SortByIndex(_)
SortByIndex(completed) ==
    IF completed = <<>> THEN <<>>
    ELSE InsertByIndex(SortByIndex(Tail(completed)), Head(completed))

\* scheduler.get_results() for the results of the tasks added, by the kind
\* of the scheduler's result_container
Scheduler_get_results(container, results, order) ==
    LET completed == Completed(results, order)
    IN  IF container = "node"
        THEN NodeResultContainer_get_results(
                 NodeResultContainer_add_all(None, completed)).results
        ELSE IF container = "ordered"
        THEN LET sorted == SortByIndex(completed)
             IN  [k \in 1..Len(sorted) |-> sorted[k][1]]
        ELSE [k \in 1..Len(completed) |-> completed[k][1]]

\* while self.task_available: task = self.get_task(); scheduler.add_task(*task)
\* (the chunks of the tasks added are listed in hist.pending; the trace gets
\* <<"add_task", n, 1 with a callable and 0 with None, <<chunk>>>> for the
\* n-th task since a first task was buffered)
RECURSIVE add_tasks(_)
add_tasks(c) ==
    IF c.exc # "none" \/ ~task_available(c) THEN c
    ELSE LET c1 == get_task(c)
         IN  IF c1.exc # "none" THEN c1
             ELSE add_tasks([c1 EXCEPT !.trace = Append(@,
                     <<"add_task", c1.rnth,
                       IF IsNone(Val(c1.rtask).callable) THEN 0 ELSE 1,
                       <<Val(c1.rtask).chunk>>>>)])

\* execute leaving the scheduler's result container as it is
execute_keeping_container(c, iterable, nodenr, scheduler, execute_callable_class, overwrite_result_container) ==
    IF is_parallel_training(c)
    THEN Raise(c, "ParallelFlowException")
    ELSE IF IsNone(scheduler)
    THEN IF ~IsNone(execute_callable_class)
         THEN Raise(c, "ParallelFlowException")
         ELSE Flow_execute(c, iterable, nodenr)
    ELSE
    LET container == Val(scheduler).result_container
        c1 == add_tasks(setup_parallel_execution(c, iterable, nodenr))
        results == Scheduler_get_results(container,
                      ResultsOf(c1, c1.hist.pending, [k \in 1..Len(c1.hist.pending) |-> k]),
                      Val(scheduler).order)
        c2 == IF c1.exc # "none" THEN c1
              ELSE use_results([c1 EXCEPT !.hist.pending = <<>>], results)
    IN  [c2 EXCEPT !.exec_data_iterator = None, !.rtask = None, !.rnth = 0]

\* ParallelFlow.execute
execute(c, iterable, nodenr, scheduler, execute_callable_class, overwrite_result_container) ==
    IF is_parallel_training(c)
    THEN Raise(c, "ParallelFlowException")
    ELSE IF IsNone(scheduler)
    THEN IF ~IsNone(execute_callable_class)
         THEN Raise(c, "ParallelFlowException")
         ELSE Flow_execute(c, iterable, nodenr)
    ELSE
    LET container == IF overwrite_result_container
                        /\ Val(scheduler).result_container # "ordered"
                     THEN "ordered"
                     ELSE Val(scheduler).result_container
        c1 == add_tasks(setup_parallel_execution(c, iterable, nodenr))
        results == Scheduler_get_results(container,
                      ResultsOf(c1, c1.hist.pending, [k \in 1..Len(c1.hist.pending) |-> k]),
                      Val(scheduler).order)
        c2 == IF c1.exc # "none" THEN c1
              ELSE use_results([c1 EXCEPT !.hist.pending = <<>>], results)
    IN  [c2 EXCEPT !.exec_data_iterator = None, !.rtask = None, !.rnth = 0]

\* The scheduler variables of train as the record s: schedulers the sequence
\* given (None: a single scheduler was given) and pos how many of it
\* schedulers.next() has returned, scheduler the current one (None: a None
\* entry), last the variable last_trained_node.  r is [c, s]: the
\* coordinator and these.  The trace gets <<"next", pos, 0, <<>>>> for the
\* pos-th scheduler taken from the sequence and <<"shutdown", pos, 0, <<>>>>
\* for its shutdown().

\* scheduler = schedulers.next()
schedulers_next(r) ==
    IF r.c.exc # "none" THEN r
    ELSE IF r.s.pos + 1 > Len(Val(r.s.schedulers))
    THEN [r EXCEPT !.c = Raise(@, "StopIteration")]
    ELSE [c |-> [r.c EXCEPT !.trace = Append(@, <<"next", r.s.pos + 1, 0, <<>>>>)],
          s |-> [r.s EXCEPT !.pos = @ + 1,
                            !.scheduler = Val(r.s.schedulers)[r.s.pos + 1]]]

\* shutdown() called on whatever the current entry of the sequence is
scheduler_shutdown_unguarded(r) ==
    [r EXCEPT !.c.trace = Append(@, <<"shutdown", r.s.pos, 0, <<>>>>)]

\* if scheduler is not None: scheduler.shutdown(); the name scheduler is
\* still bound to the iterable the caller passed, which has no shutdown(),
\* until schedulers.next() has returned once
scheduler_shutdown(r) ==
    IF IsNone(r.s.scheduler) THEN r
    ELSE IF "sequence" \in DOMAIN Val(r.s.scheduler)
    THEN [r EXCEPT !.c = Raise(@, "AttributeError")]
    ELSE [r EXCEPT !.c.trace = Append(@, <<"shutdown", r.s.pos, 0, <<>>>>)]

RECURSIVE dispose_schedulers(_, _)
\* taking the next scheduler n times without shutting the current one down
dispose_schedulers_without_shutdown(r, n) ==
    IF n <= 0 \/ r.c.exc # "none" THEN r
    ELSE dispose_schedulers(schedulers_next(r), n - 1)

\* for _ in range(n): shut the scheduler down if it is one, take the next
dispose_schedulers(r, n) ==
    IF n <= 0 \/ r.c.exc # "none" THEN r
    ELSE dispose_schedulers(schedulers_next(scheduler_shutdown(r)), n - 1)

\* check that the scheduler is compatible: the NodeResultContainer installed
overwrite_result_container_of(s, overwrite_result_container) ==
    IF ~IsNone(s.scheduler) /\ overwrite_result_container
          /\ Val(s.scheduler).result_container # "node"
    THEN [s EXCEPT !.scheduler = Some([Val(@) EXCEPT !.result_container = "node"])]
    ELSE s

\* ParallelFlow.train, prepare scheduler: c is the coordinator as
\* setup_parallel_training has left it
prepare_scheduler(c, scheduler, overwrite_result_container) ==
    IF "sequence" \notin DOMAIN Val(scheduler)
    THEN [c |-> c,
          s |-> overwrite_result_container_of(
                    [schedulers |-> None, pos |-> 0, scheduler |-> scheduler,
                     last |-> None],
                    overwrite_result_container)]
    ELSE LET r0 == schedulers_next(
                      [c |-> c,
                       s |-> [schedulers |-> Some(Val(scheduler).sequence), pos |-> 0,
                              scheduler |-> scheduler, last |-> None]])
             r1 == IF ~IsNone(c.i_train_node) /\ Val(c.i_train_node) > 0
                   THEN dispose_schedulers(r0, Val(c.i_train_node))
                   ELSE IF IsNone(c.i_train_node)
                   THEN dispose_schedulers(r0, Len(c.flow) - 1)
                   ELSE r0
         IN  [c |-> r1.c,
              s |-> IF r1.c.exc # "none" THEN r1.s
                    ELSE overwrite_result_container_of(
                            [r1.s EXCEPT !.last = c.i_train_node],
                            overwrite_result_container)]

\* train going on with the scheduler it has, whatever the node index
switch_scheduler_never(r, overwrite_result_container) == r

\* ParallelFlow.train, check if we have to switch to next scheduler
switch_scheduler(r, overwrite_result_container) ==
    IF r.c.exc = "none" /\ ~IsNone(r.s.schedulers) /\ ~IsNone(r.c.i_train_node)
          /\ Val(r.c.i_train_node) > Val(r.s.last)
    THEN LET r1 == dispose_schedulers(r, Val(r.c.i_train_node) - Val(r.s.last))
         IN  IF r1.c.exc # "none" THEN r1
             ELSE [c |-> r1.c,
                   s |-> overwrite_result_container_of(
                            [r1.s EXCEPT !.last = r.c.i_train_node],
                            overwrite_result_container)]
    ELSE r

\* ParallelFlow.train: the loop while self.is_parallel_training.  The trace
\* gets <<"use_results", i, n, <<>>>> when use_results is called with n
\* results, node i being the node in training.
RECURSIVE train_loop(_, _)
train_loop(r, overwrite_result_container) ==
    IF r.c.exc # "none" \/ ~is_parallel_training(r.c) THEN r
    ELSE IF IsNone(r.s.scheduler)
    THEN [r EXCEPT !.c = Raise(IF task_available(r.c) THEN get_task(r.c) ELSE r.c,
                               "AttributeError")]
    ELSE LET c1 == add_tasks(r.c)
             sch == Val(r.s.scheduler)
             results == Scheduler_get_results(sch.result_container,
                           ResultsOf(c1, c1.hist.pending,
                                     [k \in 1..Len(c1.hist.pending) |-> k]),
                           sch.order)
         IN  IF c1.exc # "none" THEN [r EXCEPT !.c = c1]
             ELSE IF results = <<>>
             THEN [r EXCEPT !.c = Raise(c1, "Exception: no results")]
             ELSE LET c2 == use_results(
                               [c1 EXCEPT !.hist.pending = <<>>,
                                          !.trace = Append(@,
                                              <<"use_results", Val(c1.i_train_node),
                                                Len(results), <<>>>>)],
                               results)
                  IN  train_loop(switch_scheduler([c |-> c2, s |-> r.s],
                                                  overwrite_result_container),
                                 overwrite_result_container)

\* ParallelFlow.train (ParallelCheckpointFlow.train passes the checkpoints and
\* its own default of train_callable_class on to it)
train(c, data_iterables, ckpts, scheduler, train_callable_class, overwrite_result_container) ==
    IF is_parallel_training(c)
    THEN Raise(c, "ParallelFlowException")
    ELSE IF IsNone(scheduler)
    THEN IF ~IsNone(train_callable_class)
         THEN Raise(c, "ParallelFlowException")
         ELSE Flow_train(c, data_iterables)
    ELSE
    LET c1 == setup_parallel_training(c, data_iterables, ckpts)
        r == IF c1.exc # "none"
             THEN [c |-> c1,
                   s |-> [schedulers |-> None, pos |-> 0, scheduler |-> None,
                          last |-> None]]
             ELSE train_loop(prepare_scheduler(c1, scheduler, overwrite_result_container),
                             overwrite_result_container)
        r1 == IF ~IsNone(r.s.schedulers) THEN scheduler_shutdown(r) ELSE r
    IN  [r1.c EXCEPT !.train_data_iterables = None,
                     !.train_data_iterator = None,
                     !.rtask = None, !.rnth = 0]

\* every phase of every node of the flow refuses to fork
AllRefuse(fl) ==
    \A j \in 1..Len(fl) : \A p \in 1..fl[j].nphases : ~fl[j].forks[p]

\* a training run starts from c with data_iterables: for a flow that never
\* forks, ref is what sequential training makes of it
WithReference(c, data_iterables) ==
    IF ~is_parallel_training(c) /\ AllRefuse(c.flow)
    THEN [c EXCEPT !.rref = Some(SequentialTrain(c.flow, data_iterables))]
    ELSE c

\* execute is called on iterable: ref holds the arguments of the call
WithExecuteReference(c, iterable, nodenr, scheduler, overwrite_result_container) ==
    [c EXCEPT !.rref = Some([input |-> iterable,
                             parallel |-> ~IsNone(scheduler),
                             overwrite |-> overwrite_result_container])]

\* ------------------------------------------------------------- the calls
\* the orders in which the results of n tasks come back: that of submission
\* and its reverse
Orders(n) == {[k \in 1..n |-> k], [k \in 1..n |-> n + 1 - k]}

\* a call starts: nothing raised, nothing returned
Call(c) == c

\* a setup call: the results of tasks handed out before are dropped
SetupCall(c) == [Call(c) EXCEPT !.hist.pending = <<>>]

\* The data iterables of a run that is over: with _i_train_node None nothing
\* reads self._train_data_iterables until setup_parallel_training has
\* replaced it, so of the sources only that they are held (not None) is kept.
Held(c) ==
    IF IsNone(c.i_train_node) /\ ~IsNone(c.train_data_iterables)
    THEN Some(<<>>)
    ELSE c.train_data_iterables

\* the call op has returned or raised, leaving the coordinator as c
Commit(c, op) ==
    /\ flow' = c.flow
    /\ isCheckpointFlow' = c.isCheckpointFlow
    /\ train_data_iterables' = Held(c)
    /\ train_data_iterator' = c.train_data_iterator
    /\ i_train_node' = c.i_train_node
    /\ exec_data_iterator' = c.exec_data_iterator
    /\ next_task' = c.next_task
    /\ checkpoints' = c.checkpoints
    /\ hist' = c.hist
    /\ node_container' = node_container
    /\ active_extensions' = active_extensions
    /\ task_callable' = task_callable
    /\ ret' = [op |-> op, exc |-> c.exc, task |-> c.rtask, nth |-> c.rnth,
                out |-> c.rout,
                ref |-> c.rref, args |-> c.rargs, trace |-> c.trace]

CheckpointInputs == IF isCheckpointFlow THEN CheckpointLists ELSE {<<>>}

SetupParallelTraining ==
    \E d \in DataIterables, k \in CheckpointInputs :
        Commit(setup_parallel_training(WithReference(SetupCall(Self), d), d, k),
               "setup_parallel_training")

SetupParallelExecution ==
    \E x \in ExecIterables, nodenr \in NodeNrs :
        Commit(setup_parallel_execution(SetupCall(Self), x, nodenr),
               "setup_parallel_execution")

GetTask == Commit(get_task(Call(Self)), "get_task")

\* the schedulers a caller passes: none, or one with a plain list container
Scheduler(order) == Some([result_container |-> "list", order |-> order])

\* a sequence of schedulers, one entry per node, an entry None or a scheduler
SchedulerSequences ==
    {Some([sequence |-> [j \in 1..NumNodes |->
                            IF j \in absent THEN None ELSE Scheduler("fifo")]]) :
        absent \in SUBSET (1..NumNodes)}

\* <<scheduler, overwrite_result_container>> of a call of train: no
\* scheduler or one; for a ParallelFlow also one that loses the results, and
\* the sequences
TrainSchedulers ==
    {<<None, TRUE>>} \cup {<<Scheduler("fifo"), ow>> : ow \in BOOLEAN}
    \cup IF isCheckpointFlow THEN {}
         ELSE {<<Scheduler("lost"), TRUE>>}
              \cup {<<sch, TRUE>> : sch \in SchedulerSequences}

\* <<scheduler, overwrite_result_container>> of a call of execute; the
\* scheduler completing the last task first is the one that tells the
\* result containers apart
ExecuteSchedulers ==
    {<<None, TRUE>>} \cup {<<Scheduler("lifo"), ow>> : ow \in BOOLEAN}

\* train_callable_class as the caller leaves it: the default of the class
\* (None for ParallelFlow.train, FlowTrainCallable for ParallelCheckpointFlow.train)
DefaultTrainCallableClass ==
    IF isCheckpointFlow THEN Some("FlowTrainCallable") ELSE None

\* train is called: args are the arguments of the call, of a call made
\* with no training underway
WithTrainArgs(c, data_iterables, scheduler, overwrite_result_container) ==
    IF is_parallel_training(c) THEN c
    ELSE [c EXCEPT !.rargs = Some([scheduler |-> scheduler])]

Train ==
    \E d \in DataIterables, k \in CheckpointInputs, sch \in TrainSchedulers :
        Commit(train(WithTrainArgs(WithReference(SetupCall(Self), d), d, sch[1], sch[2]),
                     d, k, sch[1], DefaultTrainCallableClass, sch[2]),
               "train")

\* (a node index is given in the calls with a scheduler, where it is to
\* reach the tasks)
Execute ==
    \E x \in ExecIterables, nodenr \in NodeNrs, sch \in ExecuteSchedulers :
        /\ IsNone(sch[1]) => (x # <<>> /\ IsNone(nodenr))
        /\ Commit(execute(WithExecuteReference(SetupCall(Self), x, nodenr, sch[1], sch[2]),
                          x, nodenr, sch[1], None, sch[2]),
                  "execute")

UseResults ==
    \E perm \in Orders(Len(hist.pending)) :
        LET c0 == Call(Self)
            results == ResultsOf(c0, hist.pending, perm)
        IN  Commit(use_results([c0 EXCEPT !.hist.pending = <<>>], results),
                   "use_results")

\* ------------------------------------------------------------------ Init
\* the flows: a first node of any shape, followed by nodes of at most
\* MaxLaterPhases training phases
Flows ==
    {f \in [1..NumNodes -> NodeShapes] :
        \A j \in 2..NumNodes : f[j].nphases <= MaxLaterPhases}

\* a coordinator just constructed for a flow of untrained nodes
Constructed(isCheckpoint) ==
    /\ flow \in {[j \in 1..NumNodes |-> NewNode(f[j])] : f \in Flows}
    /\ isCheckpointFlow = isCheckpoint
    /\ train_data_iterables = None
    /\ train_data_iterator = None
    /\ i_train_node = None
    /\ exec_data_iterator = None
    /\ next_task = None
    /\ checkpoints = None
    /\ hist = [handed |-> 0, pending |-> <<>>, callable |-> None]
    /\ node_container = NodeResultContainer_init
    /\ active_extensions = {}
    /\ task_callable = None
    /\ ret = [op |-> "init", exc |-> "none", task |-> None, nth |-> 0, out |-> <<>>,
              ref |-> None, args |-> None, trace |-> <<>>]

Next ==
    \/ SetupParallelTraining
    \/ SetupParallelExecution
    \/ GetTask
    \/ UseResults
    \/ Train
    \/ Execute

\* a ParallelFlow, and its calls in any order
Init == Constructed(FALSE)

\* A NodeResultContainer as a scheduler uses it: results added one at a
\* time, and drained.  added lists the results added since the container
\* was made or drained; last is what the last call returned if it was
\* get_results, with the results that had been added.
AddResult ==
    /\ Len(node_container.added) < MaxResults
    /\ \E result \in ForkedResults :
          node_container' = [node |-> NodeResultContainer_add_result(node_container.node, result),
                        added |-> Append(node_container.added, result),
                        last |-> None]
    /\ UNCHANGED <<flow, isCheckpointFlow, train_data_iterables, train_data_iterator,
                   i_train_node, exec_data_iterator, next_task, checkpoints, hist,
                   active_extensions, task_callable, ret>>

GetResults ==
    /\ LET r == NodeResultContainer_get_results(node_container.node)
       IN  node_container' = [node |-> r.node, added |-> <<>>,
                         last |-> Some([results |-> r.results, of |-> node_container.added])]
    /\ UNCHANGED <<flow, isCheckpointFlow, train_data_iterables, train_data_iterator,
                   i_train_node, exec_data_iterator, next_task, checkpoints, hist,
                   active_extensions, task_callable, ret>>

InitContainer ==
    /\ Constructed(FALSE)
    /\ \A j \in 1..NumNodes : flow[j].nphases = 1 /\ flow[j].forks = <<TRUE>>

NextContainer ==
    \/ AddResult
    \/ GetResults

SpecContainer == InitContainer /\ [][NextContainer]_vars

\* ------------------------------------------------- callables and extensions
\* the extensions there are, by number
NumExtensions == 3

Extensions == 1..NumExtensions

\* mdp.get_active_extensions: the names of the extensions that are active
get_active_extensions(active) == active

\* mdp.activate_extensions, mdp.deactivate_extensions
activate_extensions(active, names) == active \cup names

deactivate_extensions(active, names) == active \ names

\* FlowTaskCallable.__init__
FlowTaskCallable_init(active) ==
    [used_extensions |-> get_active_extensions(active)]

\* setup_environment activating the used extensions over what is active
FlowTaskCallable_setup_environment_adding(callable, active) ==
    activate_extensions(active, callable.used_extensions)

\* FlowTaskCallable.setup_environment: the extensions active after it
FlowTaskCallable_setup_environment(callable, active) ==
    activate_extensions(deactivate_extensions(active, get_active_extensions(active)),
                        callable.used_extensions)

\* The environment a callable is made and run in: extensions are activated
\* and deactivated in it at any time (a callable runs where the scheduler
\* takes it, in an environment with extensions of its own).
ActivateExtension ==
    /\ \E e \in Extensions \ active_extensions :
          active_extensions' = activate_extensions(active_extensions, {e})
    /\ ret' = [ret EXCEPT !.op = "activate_extensions"]
    /\ UNCHANGED <<flow, isCheckpointFlow, train_data_iterables, train_data_iterator,
                   i_train_node, exec_data_iterator, next_task, checkpoints, hist,
                   node_container, task_callable>>

DeactivateExtension ==
    /\ \E e \in active_extensions :
          active_extensions' = deactivate_extensions(active_extensions, {e})
    /\ ret' = [ret EXCEPT !.op = "deactivate_extensions"]
    /\ UNCHANGED <<flow, isCheckpointFlow, train_data_iterables, train_data_iterator,
                   i_train_node, exec_data_iterator, next_task, checkpoints, hist,
                   node_container, task_callable>>

ConstructCallable ==
    /\ task_callable' = Some(FlowTaskCallable_init(active_extensions))
    /\ ret' = [ret EXCEPT !.op = "FlowTaskCallable"]
    /\ UNCHANGED <<flow, isCheckpointFlow, train_data_iterables, train_data_iterator,
                   i_train_node, exec_data_iterator, next_task, checkpoints, hist,
                   node_container, active_extensions>>

\* (args: the extensions that were active when setup_environment was called)
SetupEnvironment ==
    /\ ~IsNone(task_callable)
    /\ active_extensions' =
          FlowTaskCallable_setup_environment(Val(task_callable), active_extensions)
    /\ ret' = [ret EXCEPT !.op = "setup_environment",
                          !.args = Some([active |-> active_extensions])]
    /\ UNCHANGED <<flow, isCheckpointFlow, train_data_iterables, train_data_iterator,
                   i_train_node, exec_data_iterator, next_task, checkpoints, hist,
                   node_container, task_callable>>

InitExtensions ==
    /\ Constructed(FALSE)
    /\ \A j \in 1..NumNodes : flow[j].nphases = 1 /\ flow[j].forks = <<TRUE>>

NextExtensions ==
    \/ ActivateExtension
    \/ DeactivateExtension
    \/ ConstructCallable
    \/ SetupEnvironment

SpecExtensions == InitExtensions /\ [][NextExtensions]_vars

Spec == Init /\ [][Next]_vars

\* a ParallelCheckpointFlow, and the calls that train it and execute it (the
\* methods of ParallelFlow it inherits) in any order
InitCheckpoint ==
    /\ Constructed(TRUE)
    /\ \A j \in 1..NumNodes : flow[j].nphases <= MaxCheckpointPhases

NextCheckpoint ==
    \/ SetupParallelTraining
    \/ SetupParallelExecution
    \/ GetTask
    \/ UseResults
    \/ Train
    \/ Execute

SpecCheckpoint == InitCheckpoint /\ [][NextCheckpoint]_vars

\* ---------------------------------------------------------------- claims
TrainingOps == {"setup_parallel_training", "use_results", "train"}

\* C1: task_available is true exactly when get_task would return a task
\* rather than raise NoTaskException, in every state the coordinator can
\* reach, those after a failed call and after use_results with a task still
\* buffered included.
C1_TaskAvailableIffGetTaskReturns ==
    /\ task_available(Self) <=> (get_task(Call(Self)).exc = "none")
    /\ ~task_available(Self) => get_task(Call(Self)).exc = "NoTaskException"

\* C2: training and execution are never underway together: while one is
\* underway, setting up the other is rejected with a ParallelFlowException.
C2_TrainingExcludesExecution ==
    /\ ~(is_parallel_training(Self) /\ is_parallel_executing(Self))
    /\ is_parallel_executing(Self) =>
          \A d \in DataIterables, k \in CheckpointInputs :
              setup_parallel_training(SetupCall(Self), d, k).exc = "ParallelFlowException"
    /\ is_parallel_training(Self) =>
          \A x \in ExecIterables :
              setup_parallel_execution(SetupCall(Self), x, None).exc = "ParallelFlowException"

\* C3: of the tasks get_task hands out, the first since a phase (or an
\* execution) was set up carries the callable, and every later one of that
\* phase carries None in its place.
C3_FirstTaskCarriesCallable ==
    (ret.op = "get_task" /\ ret.exc = "none") =>
        (~IsNone(Val(ret.task).callable) <=> ret.nth = 1)

\* the second task of a node's second training phase has been handed out
C3_Witness ==
    /\ ret.op = "get_task" /\ ret.exc = "none"
    /\ ret.nth = 2
    /\ Val(ret.task).of_phase = 1
    /\ IsNone(Val(ret.task).callable)

\* the event e of a trace closes the final training phase of its node
ClosesFinalPhase(e) ==
    e[1] = "stop" /\ e[3] = flow[e[2] + 1].nphases - 1

\* a checkpoint function is registered for node i (as of the next state)
Registered(i) == ~IsNone(checkpoints') /\ ~IsNone(Val(checkpoints')[i + 1])

C4_Step ==
    ret'.op \in TrainingOps =>
        \A k \in 1..Len(ret'.trace) :
            LET e == ret'.trace[k]
                i == e[2]
            IN  /\ e[1] = "checkpoint" =>
                      /\ Registered(i)
                      /\ k > 1 /\ ClosesFinalPhase(ret'.trace[k - 1])
                      /\ ret'.trace[k - 1][2] = i
                      /\ is_training(flow[i + 1])
                      /\ ~is_training(flow'[i + 1]) /\ flow'[i + 1].acc = <<>>
                      /\ \A k2 \in 1..Len(ret'.trace) : ret'.trace[k2] = e => k2 = k
                /\ (ClosesFinalPhase(e) /\ Registered(i)) =>
                      /\ k < Len(ret'.trace)
                      /\ ret'.trace[k + 1] = <<"checkpoint", i, 0, <<>>>>

\* C4: the checkpoint function registered for a node is invoked once, right
\* after the call that closes the node's final training phase has closed it:
\* never before that phase is closed, never with a phase of the node open,
\* and not a second time (the node was still in training before the call and
\* is not after it).
C4_CheckpointOnceAfterFinalPhase == [][C4_Step]_vars

\* use_results has closed the second, final phase of a node and the node's
\* checkpoint function has been invoked
C4_Witness ==
    /\ isCheckpointFlow
    /\ ret.op = "use_results" /\ ret.exc = "none"
    /\ Len(ret.trace) >= 2
    /\ ret.trace[1][1] = "stop" /\ ret.trace[1][3] = 1
    /\ ret.trace[2] = <<"checkpoint", ret.trace[1][2], 0, <<>>>>

StopsOf(trace) == SelectSeq(trace, LAMBDA e : e[1] = "stop")

\* C5: for a flow none of whose phases forks, setup_parallel_training and
\* train succeed exactly when sequential training does, and then leave the
\* nodes as sequential training leaves them, having closed the same phases
\* with the same chunks in the same order, with training complete and no
\* task to hand out.
C5_NonForkingLikeSequential ==
    (ret.op \in {"setup_parallel_training", "train"} /\ ~IsNone(ret.ref)) =>
        LET ref == Val(ret.ref)
        IN  /\ (ret.exc = "none") <=> ref.ok
            /\ ret.exc = "none" =>
                  /\ flow = ref.flow
                  /\ StopsOf(ret.trace) = ref.closed
                  /\ ~is_parallel_training(Self)
                  /\ IsNone(next_task) \/ Val(next_task).of_node < 0

\* setup_parallel_training has trained a flow of two nodes that never fork,
\* three phases in all, without handing out a task
C5_Witness ==
    /\ ret.op = "setup_parallel_training" /\ ret.exc = "none"
    /\ ~IsNone(ret.ref)
    /\ Len(StopsOf(ret.trace)) >= 3
    /\ \A j \in 1..NumNodes : flow[j].nphases >= 1

\* phase p (from 0) of node i (from 0) forks
PhaseForks(i, p) == flow[i + 1].forks[p + 1]

\* the events of a trace without those of the driver's schedulers
CoordinatorEvents(trace) ==
    SelectSeq(trace, LAMBDA e :
        e[1] \notin {"next", "shutdown", "use_results", "flownode", "fork"})

\* C6: a phase whose fork is refused never yields a task: the refusal does
\* not surface as an error, the phase is trained locally with the node's
\* data and closed within the same call, and a call that returns normally
\* with training underway has buffered the first task of a phase that forks.
C6_RefusedForkTrainedLocally ==
    /\ \A t \in {next_task, ret.task} :
          (~IsNone(t) /\ Val(t).of_node >= 0) => PhaseForks(Val(t).of_node, Val(t).of_phase)
    /\ ret.exc # "TrainingPhaseNotParallelException"
    /\ ret.op \in TrainingOps =>
          \A k \in 1..Len(CoordinatorEvents(ret.trace)) :
              LET e == CoordinatorEvents(ret.trace)[k]
              IN  e[1] = "local" =>
                     /\ ~PhaseForks(e[2], e[3])
                     /\ IF k < Len(CoordinatorEvents(ret.trace))
                        THEN LET n == CoordinatorEvents(ret.trace)[k + 1]
                             IN  n[1] = "stop" /\ n[2] = e[2] /\ n[3] = e[3] /\ n[4] # <<>>
                        ELSE ret.exc \in {"FlowException: could not be repeated",
                                          "FlowException: iterator is empty"}
    /\ (ret.op \in {"setup_parallel_training", "use_results"}
          /\ ret.exc = "none" /\ is_parallel_training(Self)) =>
          LET i == Val(i_train_node)
          IN  /\ i < Len(flow) /\ is_training(flow[i + 1])
              /\ flownode_forks(flow[i + 1])
              /\ ~IsNone(next_task)
              /\ Val(next_task).of_node = i
              /\ Val(next_task).of_phase = flow[i + 1].cur
              /\ ~IsNone(Val(next_task).callable)

\* use_results has closed a forked phase, trained the node's next phase
\* locally, its fork refused, and buffered the first task of the phase after
C6_Witness ==
    /\ ret.op = "use_results" /\ ret.exc = "none"
    /\ Len(CoordinatorEvents(ret.trace)) = 3
    /\ CoordinatorEvents(ret.trace)[2][1] = "local"
    /\ CoordinatorEvents(ret.trace)[3][1] = "stop"
    /\ CoordinatorEvents(ret.trace)[3][4] # <<>>
    /\ ~IsNone(next_task) /\ Val(next_task).of_phase = 2

\* C7: when the data source of the current node yields no chunk as a
\* training phase starts, the error is "iterator is empty" on the node's
\* first phase and "could not be repeated" on every later one, the third
\* included.
C7_EmptySourceErrorByPhase ==
    (ret.op \in TrainingOps /\ ~IsNone(i_train_node)) =>
        LET i == Val(i_train_node)
        IN  /\ ret.exc = "FlowException: iterator is empty" =>
                  get_current_train_phase(flow[i + 1]) = 0
            /\ ret.exc = "FlowException: could not be repeated" =>
                  get_current_train_phase(flow[i + 1]) >= 1

\* all chunks of the source of node i
AllChunks(i) == [k \in 1..(MaxChunks + 1) |-> TrainChunk(i, k)]

\* C8: with a one-shot iterator as the data source of a node whose first
\* two phases fork, once the chunks of the first phase have all been handed
\* out and joined, the use_results call that closes that phase fails with
\* the "could not be repeated" FlowException as it sets up the second.
C8_OneShotSecondPhaseFails ==
    (/\ ret.op = "use_results"
     /\ ~IsNone(i_train_node) /\ ~IsNone(train_data_iterables)
     /\ Val(i_train_node) < Len(flow)
     /\ LET i == Val(i_train_node)
        IN  /\ Val(train_data_iterables)[i + 1].oneShot
            /\ flow[i + 1].nphases >= 2
            /\ flow[i + 1].forks[1] /\ flow[i + 1].forks[2]
            /\ ret.trace # <<>>
            /\ ret.trace[1] = <<"stop", i, 0, AllChunks(i)>>)
    => /\ ret.exc = "FlowException: could not be repeated"
       /\ Len(CoordinatorEvents(ret.trace)) = 1
       /\ get_current_train_phase(flow[Val(i_train_node) + 1]) = 1

\* both tasks of the first phase of a two-phase node were handed out from a
\* one-shot iterator, and use_results has failed setting up the second phase
C8_Witness ==
    /\ ret.op = "use_results"
    /\ ret.exc = "FlowException: could not be repeated"
    /\ ~IsNone(i_train_node) /\ ~IsNone(train_data_iterables)
    /\ Val(i_train_node) < Len(flow)
    /\ Val(train_data_iterables)[Val(i_train_node) + 1].oneShot
    /\ flow[Val(i_train_node) + 1].nphases = 2
    /\ flow[Val(i_train_node) + 1].forks = <<TRUE, TRUE>>
    /\ CoordinatorEvents(ret.trace)
          = <<<<"stop", Val(i_train_node), 0, AllChunks(Val(i_train_node))>>>>

AddTasks(trace) == SelectSeq(trace, LAMBDA e : e[1] = "add_task")

\* C9: setup_parallel_execution on an empty input, and execute with a
\* scheduler on one, fail with the "execute data iterator is empty"
\* FlowException, and then no task is available and none was handed to the
\* scheduler.
C9_EmptyExecutionInput ==
    /\ ~is_parallel_training(Self) =>
          /\ setup_parallel_execution(SetupCall(Self), <<>>, None).exc
                = "FlowException: execute data iterator is empty"
          /\ execute(SetupCall(Self), <<>>, None, Scheduler("fifo"), None, TRUE).exc
                = "FlowException: execute data iterator is empty"
    /\ (ret.op \in {"setup_parallel_execution", "execute"}
          /\ ret.exc = "FlowException: execute data iterator is empty") =>
          /\ ~task_available(Self)
          /\ AddTasks(ret.trace) = <<>>

\* C10: execute with a scheduler, its result container left to execute,
\* hands the scheduler one task for every chunk of the input, in the order
\* of the input, the first with the callable, and returns the per-chunk
\* results concatenated in that order whatever order the tasks completed in:
\* what execution without a scheduler returns.
C10_ExecutionOutputInInputOrder ==
    (ret.op = "execute" /\ ret.exc = "none" /\ Val(ret.ref).overwrite) =>
        LET ref == Val(ret.ref)
            added == AddTasks(ret.trace)
        IN  /\ Len(ret.out) = Len(ref.input)
            /\ \A k \in 1..Len(ret.out) :
                  ret.out[k][1] = "y" /\ ret.out[k][3] = ref.input[k][3]
            /\ ref.parallel =>
                  /\ Len(added) = Len(ref.input)
                  /\ \A k \in 1..Len(added) :
                        added[k] = <<"add_task", k, IF k = 1 THEN 1 ELSE 0,
                                     <<ref.input[k]>>>>

\* execute has run two chunks on a scheduler that completes the last task
\* first, and returned the results in the order of the input
C10_Witness ==
    /\ ret.op = "execute" /\ ret.exc = "none"
    /\ Val(ret.ref).parallel /\ Val(ret.ref).overwrite
    /\ Len(Val(ret.ref).input) = 2
    /\ Len(ret.out) = 2
    /\ ret.out[1][3] = 1 /\ ret.out[2][3] = 2

\* the call that left the coordinator as c has changed nothing of the run
RunUnchanged(c) ==
    /\ c.i_train_node = i_train_node
    /\ c.next_task = next_task
    /\ c.train_data_iterables = train_data_iterables
    /\ c.train_data_iterator = train_data_iterator
    /\ c.checkpoints = checkpoints
    /\ c.flow = flow

\* C11: misuse raises a ParallelFlowException and changes nothing: with
\* training underway setup_parallel_training and train raise and leave the
\* node index, the buffered task, the data iterables and the registered
\* checkpoints as they were; a callable class without a scheduler makes
\* train and execute raise before a node is trained or executed.
C11_MisuseChangesNothing ==
    /\ is_parallel_training(Self) =>
          \A d \in DataIterables, k \in CheckpointInputs :
              LET s == setup_parallel_training(SetupCall(Self), d, k)
                  t == train(SetupCall(Self), d, k, Scheduler("fifo"),
                             DefaultTrainCallableClass, TRUE)
              IN  /\ s.exc = "ParallelFlowException" /\ RunUnchanged(s)
                  /\ t.exc = "ParallelFlowException" /\ RunUnchanged(t)
    /\ \A d \in DataIterables, k \in CheckpointInputs :
          LET t == train(SetupCall(Self), d, k, None, Some("FlowTrainCallable"), TRUE)
          IN  t.exc = "ParallelFlowException" /\ RunUnchanged(t) /\ t.trace = <<>>
    /\ \A x \in ExecIterables :
          LET e == execute(SetupCall(Self), x, None, None, Some("FlowExecuteCallable"), TRUE)
          IN  e.exc = "ParallelFlowException" /\ RunUnchanged(e) /\ e.rout = <<>>

UseResultsCalls(trace) == SelectSeq(trace, LAMBDA e : e[1] = "use_results")

\* the call recorded in ret is a train with a single scheduler that loses
\* the results of its tasks, and tasks were submitted to it
LostResults ==
    /\ ret.op = "train" /\ ~IsNone(ret.args)
    /\ ~IsNone(Val(ret.args).scheduler)
    /\ "order" \in DOMAIN Val(Val(ret.args).scheduler)
    /\ Val(Val(ret.args).scheduler).order = "lost"
    /\ AddTasks(ret.trace) # <<>>

\* C12: when the scheduler has produced nothing for the tasks submitted in
\* the current phase, train aborts with the fatal "could not get any
\* results" error without calling use_results, the phase is not closed and
\* the node index does not advance, also with the NodeResultContainer that
\* train installs by default.
C12_NoResultsAbortsTrain ==
    LostResults =>
        /\ ret.exc = "Exception: no results"
        /\ UseResultsCalls(ret.trace) = <<>>
        /\ StopsOf(ret.trace) = <<>>

\* the call recorded in ret is a train that was given a sequence of
\* schedulers, started with no training underway
SequenceTrain ==
    /\ ret.op = "train" /\ ~IsNone(ret.args)
    /\ ~IsNone(Val(ret.args).scheduler)
    /\ "sequence" \in DOMAIN Val(Val(ret.args).scheduler)

\* the schedulers of the sequence given to the train recorded in ret
GivenSequence == Val(Val(ret.args).scheduler).sequence

\* how many schedulers train has taken from the sequence before event k
NextCount(trace, k) ==
    Cardinality({j \in 1..(k - 1) : trace[j][1] = "next"})

ShutdownsOf(trace, p) ==
    Cardinality({j \in 1..Len(trace) : trace[j] = <<"shutdown", p, 0, <<>>>>})

\* C13: given a sequence of schedulers, train has retired as many
\* schedulers as there are nodes before the node in training whenever it
\* submits a task or uses results: the tasks of node i go to the scheduler
\* at position i+1 of the sequence in every phase of the node; a scheduler
\* is shut down when it is replaced by the next; and when training is
\* complete at setup every scheduler of the sequence is retired.
C13_SchedulerPerNode ==
    SequenceTrain =>
        LET tr == ret.trace
        IN  /\ \A k \in 1..Len(tr) :
                  /\ tr[k][1] = "add_task" => NextCount(tr, k) = tr[k][4][1][2] + 1
                  /\ tr[k][1] = "use_results" => NextCount(tr, k) = tr[k][2] + 1
                  /\ (tr[k][1] = "next" /\ tr[k][2] > 1) =>
                        /\ ShutdownsOf(tr, tr[k][2] - 1)
                              = IF IsNone(GivenSequence[tr[k][2] - 1]) THEN 0 ELSE 1
                        /\ ~IsNone(GivenSequence[tr[k][2] - 1]) =>
                              tr[k - 1] = <<"shutdown", tr[k][2] - 1, 0, <<>>>>
            /\ (ret.exc = "none" /\ AddTasks(tr) = <<>> /\ UseResultsCalls(tr) = <<>>) =>
                  /\ NextCount(tr, Len(tr) + 1) = NumNodes
                  /\ \A p \in 1..NumNodes :
                        ShutdownsOf(tr, p) = IF IsNone(GivenSequence[p]) THEN 0 ELSE 1

\* train with a sequence of schedulers has trained two phases of the first
\* node with the first scheduler and then the second node with the second
C13_Witness ==
    /\ SequenceTrain /\ ret.exc = "none"
    /\ Len(UseResultsCalls(ret.trace)) = 3
    /\ UseResultsCalls(ret.trace)[2][2] = 0
    /\ UseResultsCalls(ret.trace)[3][2] = 1

\* the events of the trace that use the scheduler at position p of the
\* sequence: tasks added to it, results fetched from it, its shutdown
UsesOfEntry(trace, p) ==
    SelectSeq(trace, LAMBDA e :
        \/ e[1] = "add_task" /\ e[4][1][2] = p - 1
        \/ e[1] = "use_results" /\ e[2] = p - 1
        \/ e = <<"shutdown", p, 0, <<>>>>)

\* C14 as stated: with a sequence of schedulers train never fails on a None
\* entry and never uses one, whether or not the node of the entry forks.
C14_NoneEntryLegalForEveryNode ==
    SequenceTrain =>
        /\ ret.exc # "AttributeError"
        /\ \A p \in 1..NumNodes :
              IsNone(GivenSequence[p]) => UsesOfEntry(ret.trace, p) = <<>>

\* C14: in a sequence of schedulers a None entry is legal for a node that
\* hands out no task (it is not trained, or each of its phases refuses to
\* fork and is trained locally): train then completes with every node
\* trained and without add_task, get_results or shutdown on a None entry.
\* A None entry for a node with a phase that forks makes train fail with
\* an AttributeError at the first task of that node, the node index left at
\* that node.
C14_NoneEntryLegalWithoutTasks ==
    SequenceTrain =>
        /\ \A p \in 1..NumNodes :
              IsNone(GivenSequence[p]) => UsesOfEntry(ret.trace, p) = <<>>
        /\ ret.exc = "none" =>
              /\ ~is_parallel_training(Self)
              /\ \A j \in 1..NumNodes : ~is_training(flow[j])
        /\ ret.exc = "AttributeError" =>
              /\ is_parallel_training(Self)
              /\ IsNone(GivenSequence[Val(i_train_node) + 1])
              /\ is_training(flow[Val(i_train_node) + 1])
              /\ flownode_forks(flow[Val(i_train_node) + 1])

\* train has completed with a None entry for a node it trained locally and
\* a scheduler for a node trained with tasks
C14_Witness ==
    /\ SequenceTrain /\ ret.exc = "none"
    /\ \E p \in 1..NumNodes :
          /\ IsNone(GivenSequence[p])
          /\ \E k \in 1..Len(ret.trace) :
                ret.trace[k][1] = "local" /\ ret.trace[k][2] = p - 1
    /\ AddTasks(ret.trace) # <<>>

\* C15: with a node index given, the callable of the first task of
\* setup_parallel_execution carries that index, a fork of the callable
\* carries the same flow and index, and execute with a scheduler returns
\* what execute without one returns for the same iterable and node index.
C15_NodenrTruncatesCallable ==
    ~is_parallel_training(Self) =>
        \A x \in ExecIterables \ {<<>>}, nodenr \in NodeNrs :
            LET s == setup_parallel_execution(SetupCall(Self), x, nodenr)
                callable == Val(Val(s.next_task).callable)
                e == execute(SetupCall(Self), x, nodenr, Scheduler("fifo"), None, TRUE)
            IN  /\ s.exc = "none" /\ e.exc = "none"
                /\ callable.nodenr = nodenr
                /\ FlowExecuteCallable_fork(callable) = callable
                /\ e.rout = Flow_execute(SetupCall(Self), x, nodenr).rout

\* the call recorded in ret is a train with a scheduler, started with no
\* training underway, that has raised and left training underway
TrainAborted ==
    /\ ret.op = "train" /\ ~IsNone(ret.args)
    /\ ~IsNone(Val(ret.args).scheduler)
    /\ ret.exc # "none"
    /\ is_parallel_training(Self)

\* C16: after train with a scheduler has aborted with training still
\* underway, the training data iterables are still held, use_results does
\* not fail for missing state, and a new training run can be set up.
C16_ConsistentAfterAbort ==
    TrainAborted =>
        /\ ~IsNone(train_data_iterables)
        /\ \A perm \in Orders(Len(hist.pending)) :
              use_results([Call(Self) EXCEPT !.hist.pending = <<>>],
                          ResultsOf(Call(Self), hist.pending, perm)).exc # "TypeError"
        /\ \A d \in DataIterables, k \in CheckpointInputs :
              /\ setup_parallel_training(SetupCall(Self), d, k).exc
                    # "ParallelFlowException"
              /\ train(SetupCall(Self), d, k, Scheduler("fifo"),
                       DefaultTrainCallableClass, TRUE).exc # "ParallelFlowException"

\* C17: ParallelCheckpointFlow.train called with data iterables and
\* checkpoints and no scheduler, the other arguments at their defaults,
\* trains locally: it does not raise the ParallelFlowException of a callable
\* class given without a scheduler, and a source with chunks for every node
\* leaves every node trained.
C17_CheckpointTrainWithoutScheduler ==
    (isCheckpointFlow /\ ret.op = "train" /\ ~IsNone(ret.args)
        /\ IsNone(Val(ret.args).scheduler)) =>
        /\ ret.exc # "ParallelFlowException"
        /\ ret.exc = "none" => \A j \in 1..NumNodes : ~is_training(flow[j])

\* how many of the results are the result of chunk, and how many chunks of
\* the node are chunk
ResultsWith(results, chunk) ==
    Cardinality({j \in 1..Len(results) : results[j] = <<chunk>>})

ChunksIn(node, chunk) ==
    Cardinality({j \in 1..Len(node) : node[j] = chunk})

\* node holds every one of the results once, and nothing else
JoinedOnce(node, results) ==
    /\ Len(node) = Len(results)
    /\ \A j \in 1..Len(results) :
          ChunksIn(node, results[j][1]) = ResultsWith(results, results[j][1])

\* C18: a NodeResultContainer holds nothing until a result is added; the
\* first result added is the accumulator and every later one is joined into
\* it once; get_results returns a list of exactly one element, the
\* accumulator (None when nothing was added), and leaves the container
\* empty.
C18_ContainerJoinsOnceAndDrains ==
    /\ IsNone(node_container.node) <=> node_container.added = <<>>
    /\ ~IsNone(node_container.node) => JoinedOnce(Val(node_container.node), node_container.added)
    /\ Len(node_container.added) = 1 => Val(node_container.node) = node_container.added[1]
    /\ ~IsNone(node_container.last) =>
          LET last == Val(node_container.last)
          IN  /\ Len(last.results) = 1
              /\ IsNone(node_container.node) /\ node_container.added = <<>>
              /\ IF last.of = <<>> THEN IsNone(last.results[1])
                 ELSE JoinedOnce(last.results[1], last.of)

\* three results, two of them of the same chunk, were added and drained
C18_Witness ==
    /\ ~IsNone(node_container.last)
    /\ Len(Val(node_container.last).of) = 3
    /\ Val(node_container.last).of[1] = Val(node_container.last).of[3]
    /\ Val(node_container.last).of[1] # Val(node_container.last).of[2]

\* every order of n results
ArrivalOrders(n) ==
    {perm \in [1..n -> 1..n] : \A a, b \in 1..n : a # b => perm[a] # perm[b]}

\* the results of the tasks handed out, arriving in the order perm, the
\* first cut of them joined in a NodeResultContainer and the others as a
\* list: with cut 0 what a list container returns, with all of them what
\* the NodeResultContainer returns
PartitionedResults(c, perm, cut) ==
    LET results == ResultsOf(c, c.hist.pending, perm)
        joined == NodeResultContainer_get_results(
                      NodeResultContainer_add_all(None,
                          [k \in 1..cut |-> <<results[k], k>>])).results
    IN  (IF cut = 0 THEN <<>> ELSE joined) \o SubSeq(results, cut + 1, Len(results))

\* use_results with the results of the tasks handed out, in order of
\* submission as a list
UsedInOrder ==
    use_results([Call(Self) EXCEPT !.hist.pending = <<>>],
                PartitionedResults(Call(Self), [k \in 1..Len(hist.pending) |-> k], 0))

\* the tasks handed out were handed out with a FlowTrainCallable: their
\* results are forked nodes
TrainTasksPending ==
    ~IsNone(hist.callable) /\ Val(hist.callable).kind = "train"

\* C19: with a join that is commutative and associative, what use_results
\* leaves of a training phase does not depend on the order in which the
\* results of its tasks arrive or on how they were joined before (in a
\* NodeResultContainer, as a list, or partly so): the nodes, the node index
\* and the phase closed are the same, and the phase is closed with the
\* chunks of the tasks, each once.
C19_JoinOrderAndPartitionIndependent ==
    (is_parallel_training(Self) /\ hist.pending # <<>> /\ TrainTasksPending) =>
        /\ \A perm \in ArrivalOrders(Len(hist.pending)), cut \in 0..Len(hist.pending) :
              LET u == use_results([Call(Self) EXCEPT !.hist.pending = <<>>],
                                   PartitionedResults(Call(Self), perm, cut))
              IN  /\ u.flow = UsedInOrder.flow
                  /\ u.i_train_node = UsedInOrder.i_train_node
                  /\ u.next_task = UsedInOrder.next_task
                  /\ u.exc = UsedInOrder.exc
                  /\ u.trace = UsedInOrder.trace
        /\ LET closed == StopsOf(UsedInOrder.trace)[1]
           IN  /\ closed[2] = Val(i_train_node)
               /\ JoinedOnce(closed[4],
                             [k \in 1..Len(flow[closed[2] + 1].acc) |->
                                 <<flow[closed[2] + 1].acc[k]>>]
                             \o [k \in 1..Len(hist.pending) |-> <<hist.pending[k]>>])

\* the tasks of a phase of three chunks have been handed out, and their
\* results are due
C19_Witness ==
    /\ is_parallel_training(Self) /\ ~task_available(Self)
    /\ TrainTasksPending
    /\ ret.op = "get_task" /\ ret.exc = "none"
    /\ Len(hist.pending) = MaxChunks + 1
    /\ \A k \in 1..Len(hist.pending) : hist.pending[k] = TrainChunk(Val(i_train_node), k)

\* a run is underway: training or execution
InRun == is_parallel_training(Self) \/ is_parallel_executing(Self)

\* the data iterator get_task pulls the next task from has a chunk left
IteratorHasChunk ==
    IF is_parallel_training(Self)
    THEN ~IsNone(train_data_iterator) /\ Val(train_data_iterator).rest # <<>>
    ELSE ~IsNone(exec_data_iterator) /\ Val(exec_data_iterator) # <<>>

\* get_task refills the buffer: after a successful get_task a task is
\* available exactly when the data iterator had a chunk left
RefilledByGetTask ==
    LET g == get_task(Call(Self))
    IN  g.exc = "none" => (task_available(g) <=> IteratorHasChunk)

\* C20 as stated: during a run a successful get_task leaves a task available
\* exactly when the data iterator was not exhausted, and once get_task has
\* left no task available no call other than use_results makes one
\* available.
C20_BufferEmptyUntilUseResults ==
    InRun =>
        /\ RefilledByGetTask
        /\ (ret.op = "get_task" /\ ret.exc = "none" /\ ~task_available(Self)) =>
              /\ ~task_available(get_task(Call(Self)))
              /\ \A d \in DataIterables, k \in CheckpointInputs :
                    ~task_available(setup_parallel_training(SetupCall(Self), d, k))
              /\ \A x \in ExecIterables, nodenr \in NodeNrs :
                    ~task_available(setup_parallel_execution(SetupCall(Self), x, nodenr))

\* C20: during a run a successful get_task leaves a task available exactly
\* when the data iterator was not exhausted; with no task available
\* get_task raises NoTaskException and buffers nothing, and while training
\* is underway a new setup is refused and buffers nothing, so that no task
\* is available until use_results.  While execution is underway a new
\* setup is accepted and buffers the first task of the new run.
C20_BufferEmptyUntilUseResultsOrSetup ==
    InRun =>
        /\ RefilledByGetTask
        /\ ~task_available(Self) =>
              /\ get_task(Call(Self)).exc = "NoTaskException"
              /\ ~task_available(get_task(Call(Self)))
              /\ is_parallel_training(Self) =>
                    /\ \A d \in DataIterables, k \in CheckpointInputs :
                          LET s == setup_parallel_training(SetupCall(Self), d, k)
                          IN  s.exc = "ParallelFlowException" /\ ~task_available(s)
                    /\ \A x \in ExecIterables, nodenr \in NodeNrs :
                          LET s == setup_parallel_execution(SetupCall(Self), x, nodenr)
                          IN  s.exc = "ParallelFlowException" /\ ~task_available(s)
              /\ ~is_parallel_training(Self) =>
                    \A x \in ExecIterables \ {<<>>}, nodenr \in NodeNrs :
                        task_available(setup_parallel_execution(SetupCall(Self), x, nodenr))

\* get_task has handed out the last task of an execution: the buffer is
\* empty with the iterator at its end, and the results are due
C20_Witness ==
    /\ ret.op = "get_task" /\ ret.exc = "none"
    /\ is_parallel_executing(Self) /\ ~is_parallel_training(Self)
    /\ ~task_available(Self)
    /\ Len(hist.pending) = MaxChunks

\* the phases the call has closed without having trained them locally
JoinedStops(trace) ==
    {k \in 1..Len(trace) :
        /\ trace[k][1] = "stop"
        /\ ~\E j \in 1..(k - 1) : trace[j] = <<"local", trace[k][2], trace[k][3], <<>>>>}

\* use_results is called with training underway, on the results of the
\* training tasks handed out (forked nodes, which node.join accepts)
C21_Step ==
    (/\ ret'.op = "use_results" /\ is_parallel_training(Self)
     /\ (hist.pending # <<>> => TrainTasksPending)) =>
        LET i == Val(i_train_node)
            node == flow[i + 1]
            tr == ret'.trace
        IN  /\ tr # <<>>
            /\ tr[1][1] = "stop" /\ tr[1][2] = i /\ tr[1][3] = node.cur
            /\ JoinedOnce(tr[1][4],
                          [k \in 1..Len(node.acc) |-> <<node.acc[k]>>]
                          \o [k \in 1..Len(hist.pending) |-> <<hist.pending[k]>>])
            /\ JoinedStops(tr) = {1}
            /\ Len(tr) > 1 /\ tr[2][1] \in {"checkpoint", "flownode"}
            /\ \E k \in 2..3 :
                  /\ k <= Len(tr)
                  /\ \A j \in 2..(k - 1) : tr[j] = <<"checkpoint", i, 0, <<>>>>
                  /\ tr[k] = <<"flownode",
                               IF node.cur + 1 < node.nphases THEN i ELSE i + 1,
                               0, <<>>>>
            /\ flow'[i + 1].cur >= node.cur + 1
            /\ ret'.exc = "none" =>
                  /\ is_parallel_training(Self)' =>
                        /\ Val(i_train_node') >= i
                        /\ (Val(i_train_node') = i) => (node.cur + 1 < node.nphases)
                        /\ ~IsNone(next_task')
                        /\ ~IsNone(Val(next_task').callable)
                        /\ Val(next_task').of_node = Val(i_train_node')
                        /\ Val(next_task').of_phase = flow'[Val(i_train_node') + 1].cur
                        /\ tr[Len(tr)] = <<"fork", Val(i_train_node'),
                                            Val(next_task').of_phase, <<>>>>
                  /\ ~is_parallel_training(Self)' =>
                        \A j \in 1..NumNodes : ~is_training(flow'[j])

\* C21: use_results during training joins every result into the node at the
\* current index and closes that phase of the node, once (stop_training,
\* then the checkpoint hook); the index is kept if the node has phases left
\* and advanced otherwise; when the call returns either training is complete
\* or the first task of the next phase that forks, with a callable, is
\* buffered.
C21_UseResultsClosesOnePhase == [][C21_Step]_vars

\* use_results has closed the first phase of a node of several phases with
\* the results of two tasks, and buffered the first task of its next phase
C21_Witness ==
    /\ ret.op = "use_results" /\ ret.exc = "none"
    /\ ret.trace # <<>> /\ ret.trace[1][1] = "stop" /\ ret.trace[1][3] = 0
    /\ Len(ret.trace[1][4]) = 2
    /\ is_parallel_training(Self)
    /\ Val(i_train_node) = ret.trace[1][2]
    /\ ~IsNone(next_task) /\ Val(next_task).of_phase = 1

\* the phases of the node at index n closed when the running call comes to
\* the k-th event of its trace tr, having started from the nodes fl
ClosedBefore(fl, tr, k, n) ==
    fl[n + 1].cur
    + Cardinality({j \in 1..(k - 1) : tr[j][1] = "stop" /\ tr[j][2] = n})

\* the events of a phase of a node: begun locally, begun forked, closed
PhaseEvents == {"local", "fork", "stop"}

C22_Step ==
    /\ (~IsNone(i_train_node) /\ ~IsNone(i_train_node')) =>
          Val(i_train_node') >= Val(i_train_node)
    /\ (IsNone(i_train_node) /\ ~IsNone(i_train_node')) =>
          ret'.op \in {"setup_parallel_training", "train"}
    /\ (~IsNone(i_train_node) /\ IsNone(i_train_node')) =>
          /\ ret'.op \in {"use_results", "train"}
          /\ \A j \in 1..NumNodes : ~is_training(flow'[j])
    /\ ret'.op \in TrainingOps =>
          LET tr == ret'.trace
          IN  \A k \in 1..Len(tr) :
                tr[k][1] \in PhaseEvents =>
                  LET n == tr[k][2]
                  IN  /\ tr[k][3] = ClosedBefore(flow, tr, k, n)
                      /\ tr[k][3] < flow[n + 1].nphases
                      /\ \A m \in 0..(n - 1) :
                            ClosedBefore(flow, tr, k, m) = flow[m + 1].nphases
                      /\ ~IsNone(i_train_node) => n >= Val(i_train_node)

\* C22: during a training run the node index only moves forward, up to the
\* terminal None: it never decreases, it leaves None only by a new
\* setup_parallel_training (train calls it), and a phase of a node is begun
\* and closed only as the next phase of that node, with every phase of every
\* node before it closed.
C22_IndexOnlyMovesForward == [][C22_Step]_vars

\* use_results has closed the first phase of the first node, trained its
\* second phase locally and gone on to the forked phase of the second node
C22_Witness ==
    /\ ret.op = "use_results" /\ ret.exc = "none"
    /\ is_parallel_training(Self) /\ Val(i_train_node) = 1
    /\ ret.trace[1][1] = "stop" /\ ret.trace[1][2] = 0 /\ ret.trace[1][3] = 0
    /\ \E k \in 1..Len(ret.trace) : ret.trace[k] = <<"local", 0, 1, <<>>>>
    /\ ret.trace[Len(ret.trace)] = <<"fork", 1, 0, <<>>>>

\* setup_parallel_training, or use_results called with training underway,
\* returns normally
C23_Step ==
    (/\ ret'.exc = "none"
     /\ \/ ret'.op = "setup_parallel_training"
        \/ ret'.op = "use_results" /\ is_parallel_training(Self)) =>
        /\ is_parallel_training(Self)' =>
              LET i == Val(i_train_node')
              IN  /\ i < NumNodes
                  /\ is_training(flow'[i + 1])
                  /\ \A m \in 1..i : ~is_training(flow'[m])
        /\ ~is_parallel_training(Self)' <=>
              \A j \in 1..NumNodes : ~is_training(flow'[j])

\* C23: whenever setup_parallel_training or use_results returns normally
\* with training underway, the node at the current index is still in
\* training and every node before it is fully trained; the index is None
\* after the call exactly when no node of the flow is still in training.
C23_IndexAtFirstUntrainedNode == [][C23_Step]_vars

\* use_results has returned with the index at the second node, which is
\* still in training, the first being fully trained
C23_Witness ==
    /\ ret.op = "use_results" /\ ret.exc = "none"
    /\ ret.trace # <<>> /\ ret.trace[1][1] = "stop" /\ ret.trace[1][2] = 0
    /\ is_parallel_training(Self) /\ Val(i_train_node) = 1
    /\ is_training(flow[2]) /\ ~is_training(flow[1])

\* data iterables that are finite, not empty and can be iterated again
ReplayableIterables ==
    {d \in DataIterables :
        \A j \in 1..NumNodes : d[j].chunks # <<>> /\ ~d[j].oneShot}

\* training is complete in c: no run underway, no task buffered, no node of
\* the flow still in training
TrainingComplete(c) ==
    /\ ~is_parallel_training(c)
    /\ IsNone(c.next_task)
    /\ \A j \in 1..NumNodes : ~is_training(c.flow[j])

\* C24: train with a single scheduler that returns the results of all the
\* tasks submitted on each get_results comes to its end with training
\* complete (is_parallel_training false, no task buffered, no node still in
\* training), for every flow and all data iterables that are finite, not
\* empty and can be iterated again, from every state in which no training
\* is underway.
C24_TrainCompletes ==
    ~is_parallel_training(Self) =>
        \A d \in ReplayableIterables, k \in CheckpointInputs, ow \in BOOLEAN :
            LET r == train(SetupCall(Self), d, k, Scheduler("fifo"),
                           DefaultTrainCallableClass, ow)
            IN  r.exc = "none" /\ TrainingComplete(r)

\* the positions in the trace at which a training phase is begun, trained
\* locally or forked
PhaseStarts(trace) ==
    {k \in 1..Len(trace) : trace[k][1] \in {"local", "fork"}}

\* the positions in the trace at which a FlowNode is built
FlowNodesBuilt(trace) ==
    {k \in 1..Len(trace) : trace[k][1] = "flownode"}

\* the call recorded in ret goes through _next_train_phase:
\* setup_parallel_training, use_results, or train given a scheduler
ParallelTrainingCall ==
    \/ ret.op \in {"setup_parallel_training", "use_results"}
    \/ ret.op = "train" /\ ~IsNone(ret.args) /\ ~IsNone(Val(ret.args).scheduler)

\* C25 (as claimed): a fresh FlowNode is built at the start of every
\* training phase, parallel or local: between any two phases begun by a call
\* a FlowNode is built, so that no FlowNode is used for two phases.
C25_FreshFlowNodePerPhase ==
    ParallelTrainingCall =>
        \A k \in PhaseStarts(ret.trace), l \in PhaseStarts(ret.trace) :
            k < l => \E j \in FlowNodesBuilt(ret.trace) : k < j /\ j < l

\* C25 (as the code has it): a fresh FlowNode is built once at the start of
\* every call of _next_train_phase, that is once in setup_parallel_training
\* and once in every use_results after the phase joined is closed; every
\* training phase begun, local or parallel, is begun with the FlowNode built
\* last, which the phases begun by the same call share.
C25_FreshFlowNodePerCall ==
    ParallelTrainingCall =>
        LET tr == ret.trace
        IN  /\ \A k \in PhaseStarts(tr) : \E j \in FlowNodesBuilt(tr) : j < k
            /\ \A j \in FlowNodesBuilt(tr) :
                  \/ j = 1
                  \/ tr[j - 1][1] = "stop" /\ (j - 1) \in JoinedStops(tr)
                  \/ tr[j - 1][1] = "checkpoint" /\ (j - 2) \in JoinedStops(tr)
            /\ \A k \in JoinedStops(tr) :
                  \E j \in FlowNodesBuilt(tr) : j \in {k + 1, k + 2}
            /\ (ret.op = "setup_parallel_training" /\ tr # <<>>) =>
                  FlowNodesBuilt(tr) = {1}

\* use_results has built one FlowNode, trained a phase locally with it and
\* forked it for the parallel phase that follows
C25_Witness ==
    /\ ret.op = "use_results" /\ ret.exc = "none"
    /\ Cardinality(FlowNodesBuilt(ret.trace)) = 1
    /\ \E k \in PhaseStarts(ret.trace), l \in PhaseStarts(ret.trace) :
          /\ k < l
          /\ ret.trace[k][1] = "local" /\ ret.trace[l][1] = "fork"
          /\ \A j \in FlowNodesBuilt(ret.trace) : j < k

C26_Step ==
    /\ ret'.op = "FlowTaskCallable" =>
          /\ task_callable' = Some([used_extensions |-> active_extensions])
          /\ active_extensions' = active_extensions
    /\ ret'.op # "FlowTaskCallable" => task_callable' = task_callable
    /\ ret'.op = "setup_environment" =>
          /\ active_extensions' = Val(task_callable).used_extensions
          /\ \A e \in active_extensions \ Val(task_callable).used_extensions :
                e \notin active_extensions'
          /\ \A e \in Val(task_callable).used_extensions \ active_extensions :
                e \in active_extensions'

\* C26: a task callable records the set of the extensions active at its
\* construction, keeps it, and after setup_environment the set of active
\* extensions is exactly the recorded set, whatever was active before: the
\* others are deactivated, the missing ones activated.
C26_EnvironmentRestored == [][C26_Step]_vars

\* setup_environment has run where an extension the callable had not
\* recorded was active and one it had recorded was not
C26_Witness ==
    /\ ret.op = "setup_environment"
    /\ ~IsNone(task_callable)
    /\ Val(task_callable).used_extensions = {1, 2}
    /\ Val(ret.args).active = {2, 3}
    /\ active_extensions = {1, 2}

\* the data iterable of the node in training, held and iterable again
CurrentSource == Val(train_data_iterables)[Val(i_train_node) + 1]

ReplayableSource ==
    /\ is_parallel_training(Self)
    /\ ~IsNone(train_data_iterables)
    /\ Val(i_train_node) < NumNodes
    /\ ~CurrentSource.oneShot

\* the task is one of the phase now open of the node in training
OfCurrentPhase(task) ==
    /\ task.of_node = Val(i_train_node)
    /\ task.of_phase = flow[Val(i_train_node) + 1].cur

\* C27: in a parallel training phase the tasks handed out by get_task carry
\* the chunks of the data iterable of the node in training in the order of
\* iteration, each once: the first task buffered by setup_parallel_training
\* or use_results carries the first chunk, in every phase anew, the n-th
\* task handed out the n-th chunk, and the buffer runs empty exactly with
\* the last chunk handed out; the n-th task train hands to the scheduler in
\* a phase carries the n-th chunk as well.
C27_TasksCarrySourceChunksInOrder ==
    /\ (/\ ret.op \in {"setup_parallel_training", "use_results"}
        /\ ret.exc = "none" /\ ReplayableSource) =>
          /\ ~IsNone(next_task)
          /\ OfCurrentPhase(Val(next_task))
          /\ Val(next_task).chunk = CurrentSource.chunks[1]
    /\ (/\ ret.op = "get_task" /\ ret.exc = "none" /\ ReplayableSource
        /\ OfCurrentPhase(Val(ret.task))) =>
          /\ ret.nth <= Len(CurrentSource.chunks)
          /\ Val(ret.task).chunk = CurrentSource.chunks[ret.nth]
          /\ IsNone(next_task) <=> ret.nth = Len(CurrentSource.chunks)
          /\ ~IsNone(next_task) =>
                /\ OfCurrentPhase(Val(next_task))
                /\ Val(next_task).chunk = CurrentSource.chunks[ret.nth + 1]
    /\ ret.op = "train" =>
          \A k \in 1..Len(ret.trace) :
              ret.trace[k][1] = "add_task" =>
                  ret.trace[k][4][1][3] = ret.trace[k][2]

\* get_task has handed out the last of the two chunks of the second phase
\* of a node, the iterable having been iterated again from its start
C27_Witness ==
    /\ ret.op = "get_task" /\ ret.exc = "none" /\ ReplayableSource
    /\ OfCurrentPhase(Val(ret.task))
    /\ Val(ret.task).of_phase = 1
    /\ ret.nth = 2 /\ IsNone(next_task)
    /\ hist.pending = CurrentSource.chunks

\* the positions in the trace at which the scheduler taken last is used: a
\* task added to it, or its results fetched and handed to use_results
SchedulerUses(trace) ==
    {k \in 1..Len(trace) : trace[k][1] \in {"add_task", "use_results"}}

\* C28: when train, given a sequence of schedulers, returns or raises, every
\* scheduler it has taken from the sequence has been shut down, once and
\* after it was taken, and no task was added to a scheduler nor results
\* fetched from it after its shutdown.
C28_PulledSchedulersShutDown ==
    SequenceTrain =>
        LET tr == ret.trace
        IN  /\ \A k \in 1..Len(tr) :
                  (tr[k][1] = "next" /\ ~IsNone(GivenSequence[tr[k][2]])) =>
                      /\ ShutdownsOf(tr, tr[k][2]) = 1
                      /\ \E j \in (k + 1)..Len(tr) :
                            tr[j] = <<"shutdown", tr[k][2], 0, <<>>>>
            /\ \A k \in 1..Len(tr) :
                  tr[k][1] = "shutdown" => NextCount(tr, k) >= tr[k][2]
            /\ \A k \in SchedulerUses(tr) :
                  /\ NextCount(tr, k) >= 1
                  /\ \A j \in 1..(k - 1) :
                        tr[j] # <<"shutdown", NextCount(tr, k), 0, <<>>>>

\* train has used the two schedulers of a sequence, one after the other, and
\* shut both down, the second on returning
C28_Witness ==
    /\ SequenceTrain /\ ret.exc = "none"
    /\ NextCount(ret.trace, Len(ret.trace) + 1) = 2
    /\ ShutdownsOf(ret.trace, 1) = 1 /\ ShutdownsOf(ret.trace, 2) = 1
    /\ \E k \in SchedulerUses(ret.trace), l \in SchedulerUses(ret.trace) :
          NextCount(ret.trace, k) = 1 /\ NextCount(ret.trace, l) = 2
    /\ ret.trace[Len(ret.trace)] = <<"shutdown", 2, 0, <<>>>>

====
